---------------------------- MODULE Spec2Model ----------------------------
(***************************************************************************)
(* A model of the schema transform of prisma-editor: parseSchema,          *)
(* parseAttributeArguments, generateModelCode, generateEnumCode and        *)
(* generateSchemaCode (utils/schemaGenerator).  Texts are TLA+ strings,    *)
(* read character by character with SubSeq, so that the model follows the  *)
(* source's regular expressions and string operations.                     *)
(***************************************************************************)
EXTENDS Naturals, Integers, Sequences, FiniteSets, TLC

VARIABLES
    pc,        \* position of the run: which call has been made
    doc,       \* the Document handed to the generator
    src,       \* the blocks and lines the text to parse was written from
    text,      \* schema text: generateSchemaCode(doc), or the text to parse
    parsed,    \* the result of parseSchema(text)
    text2,     \* generateSchemaCode(parsed)
    argsStr,   \* parseAttributeArguments: its argument
    pos,       \* parseAttributeArguments: the loop index i (1-based)
    scan,      \* parseAttributeArguments: buffer, depth, isInString, ...
    result,    \* parseAttributeArguments: the list it returns
    previous,  \* the Document an earlier parseSchema call returned, still held
    content,   \* parseSchema: contentWithoutComments
    editorSchema, \* the editor page: the schema of useState(initialSchema)
    activeItem,   \* the editor page: the item shown, `<type>-<id>` or null
    showPreview,  \* the editor page: the schema preview is shown
    showERD,      \* the editor page: the diagram is shown
    now,       \* Date.now(): the time of the handler call
    call       \* the last handler call and its arguments

vars == <<pc, doc, src, text, parsed, text2, argsStr, pos, scan, result,
          previous, content, editorSchema, activeItem, showPreview, showERD, now, call>>

\* the state of the editor page, and the state of the transform
page == <<editorSchema, activeItem, showPreview, showERD, now, call>>
transform == <<doc, src, text, parsed, text2, argsStr, pos, scan, result,
               previous, content>>

(***************************************************************************)
(* JavaScript values and string operations                                 *)
(***************************************************************************)
Null == [null |-> TRUE]   \* the JavaScript null; also a Document not made yet
None == "<none>"          \* a text not made yet
Undefined == "<undefined>"
nullItem == "<null>"      \* activeItem when it is null

\* runs of the transform alone: the page is not mounted
NoPage ==
    /\ editorSchema = Null /\ activeItem = nullItem
    /\ showPreview = FALSE /\ showERD = FALSE
    /\ now = 0 /\ call = Null

NL == "\n"
DQ == "\""
SQ == "'"
BS == "\\"

\* s[i] (the empty string outside the text, which equals no character)
Ch(s, i) == IF i >= 1 /\ i <= Len(s) THEN SubSeq(s, i, i) ELSE ""

\* \s of the regular expressions and the characters String.trim removes
Space == {" ", NL, "\t", "\r"}

\* \w of the regular expressions
WordChar ==
    {"a","b","c","d","e","f","g","h","i","j","k","l","m","n","o","p","q","r",
     "s","t","u","v","w","x","y","z","A","B","C","D","E","F","G","H","I","J",
     "K","L","M","N","O","P","Q","R","S","T","U","V","W","X","Y","Z","0","1",
     "2","3","4","5","6","7","8","9","_"}

Max(a, b) == IF a >= b THEN a ELSE b
Min(a, b) == IF a <= b THEN a ELSE b

\* the least element of a non-empty set of indices
Least(S) == CHOOSE k \in S : \A j \in S : k <= j
Greatest(S) == CHOOSE k \in S : \A j \in S : k >= j

\* the first index >= i of s whose character is not in set (Len(s)+1: none)
SkipIn(s, i, set) ==
    CHOOSE k \in i..Max(i, Len(s) + 1) :
        /\ Ch(s, k) \notin set
        /\ \A j \in i..(k - 1) : Ch(s, j) \in set

\* the first index >= i of s whose character is in set (Len(s)+1: none)
FindIn(s, i, set) ==
    LET S == {k \in i..Len(s) : Ch(s, k) \in set}
    IN  IF S = {} THEN Max(i, Len(s) + 1) ELSE Least(S)

\* the last index <= i of s whose character is not in set (0: none)
SkipBack(s, i, set) ==
    CHOOSE k \in 0..Max(i, 0) :
        /\ Ch(s, k) \notin set
        /\ \A j \in (k + 1)..i : Ch(s, j) \in set

trim(s) ==
    LET a == SkipIn(s, 1, Space)
        b == SkipBack(s, Len(s), Space)
    IN  IF a > b THEN "" ELSE SubSeq(s, a, b)

\* s has p at index i
At(s, i, p) == i >= 1 /\ i + Len(p) - 1 <= Len(s) /\ SubSeq(s, i, i + Len(p) - 1) = p

startsWith(s, p) == At(s, 1, p)
endsWith(s, p) == Len(p) <= Len(s) /\ At(s, Len(s) - Len(p) + 1, p)

\* String.indexOf from index i, 1-based; 0 when p does not occur
indexFrom(s, p, i) ==
    LET S == {k \in i..(Len(s) - Len(p) + 1) : At(s, k, p)}
    IN  IF S = {} THEN 0 ELSE Least(S)

indexOf(s, p) == indexFrom(s, p, 1)
includes(s, p) == indexOf(s, p) # 0

\* String.split(sep) for a one-character separator
RECURSIVE splitFrom(_, _, _)
splitFrom(s, sep, i) ==
    LET j == FindIn(s, i, {sep})
    IN  IF j > Len(s) THEN <<SubSeq(s, i, Len(s))>>
        ELSE <<SubSeq(s, i, j - 1)>> \o splitFrom(s, sep, j + 1)

split(s, sep) == splitFrom(s, sep, 1)

\* obj.key: undefined when the object has no such property
Get(obj, key) == IF key \in DOMAIN obj THEN obj[key] ELSE Undefined

\* a list property that is present and not empty
HasItems(obj, key) == key \in DOMAIN obj /\ Len(obj[key]) > 0

\* `${x}` of a template literal
Str(x) == IF x = Undefined THEN "undefined" ELSE x

\* an element of Array.join: undefined is joined as the empty string
joined(x) == IF x = Undefined THEN "" ELSE x

\* Array.join(sep)
RECURSIVE join(_, _)
join(q, sep) ==
    IF q = <<>> THEN ""
    ELSE IF Len(q) = 1 THEN joined(q[1])
    ELSE joined(q[1]) \o sep \o join(Tail(q), sep)

\* Array.map and Array.filter
Map(q, F(_)) == [k \in 1..Len(q) |-> F(q[k])]
Filter(q, P(_)) == SelectSeq(q, P)

\* String.replace(/["']/g, '')
RECURSIVE stripQuotes(_)
stripQuotes(s) ==
    IF s = "" THEN ""
    ELSE IF Head(s) \in {DQ, SQ} THEN stripQuotes(Tail(s))
    ELSE Head(s) \o stripQuotes(Tail(s))

(***************************************************************************)
(* parseAttributeArguments: the argument scanner                           *)
(***************************************************************************)
\* (value.startsWith('"') && value.endsWith('"')) || the same with '
quoted(v) ==
    \/ startsWith(v, DQ) /\ endsWith(v, DQ)
    \/ startsWith(v, SQ) /\ endsWith(v, SQ)

\* processArg taking every argument without a name for an expression
processArg_positionalExpression(arg) ==
    LET colonIndex == indexOf(arg, ":")
    IN  IF colonIndex # 0
        THEN LET value == trim(SubSeq(arg, colonIndex + 1, Len(arg)))
             IN  [name |-> trim(SubSeq(arg, 1, colonIndex - 1)),
                  value |-> value,
                  isExpression |-> ~quoted(value)]
        ELSE [name |-> "value", value |-> trim(arg), isExpression |-> TRUE]

\* processArg: the argument that is pushed for the chunk arg
processArg(arg) ==
    LET colonIndex == indexOf(arg, ":")
    IN  IF colonIndex # 0
        THEN LET value == trim(SubSeq(arg, colonIndex + 1, Len(arg)))
             IN  [name |-> trim(SubSeq(arg, 1, colonIndex - 1)),
                  value |-> value,
                  isExpression |-> ~quoted(value)]
        ELSE [name |-> "value",
              value |-> trim(arg),
              isExpression |-> ~quoted(arg)]

\* the scanner's locals before the loop
ScanInit ==
    [buffer |-> "", depth |-> 0, isInString |-> FALSE, currentQuote |-> "",
     currentArgName |-> "", args |-> <<>>]

\* the scan loop without the test on depth: any comma outside a string splits
ScanChar_anyComma(st, s, i) ==
    LET char == Ch(s, i)
        prev == IF i > 1 THEN Ch(s, i - 1) ELSE Undefined
        more == [st EXCEPT !.buffer = st.buffer \o char]
    IN  CASE st.isInString /\ char = st.currentQuote /\ prev # BS ->
                [more EXCEPT !.isInString = FALSE]
          [] st.isInString /\ ~(char = st.currentQuote /\ prev # BS) ->
                more
          [] ~st.isInString /\ char \in {DQ, SQ} ->
                [more EXCEPT !.isInString = TRUE, !.currentQuote = char]
          [] ~st.isInString /\ char \in {"[", "{", "("} ->
                [more EXCEPT !.depth = st.depth + 1]
          [] ~st.isInString /\ char \in {"]", "}", ")"} ->
                [more EXCEPT !.depth = st.depth - 1]
          [] ~st.isInString /\ char = "," ->
                [st EXCEPT !.args = Append(st.args, processArg(st.buffer)),
                           !.buffer = ""]
          [] ~st.isInString /\ char = ":" /\ st.currentArgName = "" ->
                [more EXCEPT !.currentArgName = trim(st.buffer)]
          [] OTHER ->
                more

\* the scan loop closing a string at a quote of either kind
ScanChar_anyQuote(st, s, i) ==
    LET char == Ch(s, i)
        prev == IF i > 1 THEN Ch(s, i - 1) ELSE Undefined
        more == [st EXCEPT !.buffer = st.buffer \o char]
    IN  CASE st.isInString /\ char \in {DQ, SQ} /\ prev # BS ->
                [more EXCEPT !.isInString = FALSE]
          [] st.isInString /\ ~(char \in {DQ, SQ} /\ prev # BS) ->
                more
          [] ~st.isInString /\ char \in {DQ, SQ} ->
                [more EXCEPT !.isInString = TRUE, !.currentQuote = char]
          [] ~st.isInString /\ char \in {"[", "{", "("} ->
                [more EXCEPT !.depth = st.depth + 1]
          [] ~st.isInString /\ char \in {"]", "}", ")"} ->
                [more EXCEPT !.depth = st.depth - 1]
          [] ~st.isInString /\ char = "," /\ st.depth = 0 ->
                [st EXCEPT !.args = Append(st.args, processArg(st.buffer)),
                           !.buffer = ""]
          [] ~st.isInString /\ char = ":" /\ st.currentArgName = "" ->
                [more EXCEPT !.currentArgName = trim(st.buffer)]
          [] OTHER ->
                more

\* one iteration of the scan loop: the character at index i of s
ScanChar(st, s, i) ==
    LET char == Ch(s, i)
        prev == IF i > 1 THEN Ch(s, i - 1) ELSE Undefined
        more == [st EXCEPT !.buffer = st.buffer \o char]
    IN  CASE st.isInString /\ char = st.currentQuote /\ prev # BS ->
                [more EXCEPT !.isInString = FALSE]
          [] st.isInString /\ ~(char = st.currentQuote /\ prev # BS) ->
                more
          [] ~st.isInString /\ char \in {DQ, SQ} ->
                [more EXCEPT !.isInString = TRUE, !.currentQuote = char]
          [] ~st.isInString /\ char \in {"[", "{", "("} ->
                [more EXCEPT !.depth = st.depth + 1]
          [] ~st.isInString /\ char \in {"]", "}", ")"} ->
                [more EXCEPT !.depth = st.depth - 1]
          [] ~st.isInString /\ char = "," /\ st.depth = 0 ->
                [st EXCEPT !.args = Append(st.args, processArg(st.buffer)),
                           !.buffer = ""]
          [] ~st.isInString /\ char = ":" /\ st.currentArgName = "" ->
                [more EXCEPT !.currentArgName = trim(st.buffer)]
          [] OTHER ->
                more

\* after the loop: a buffer that is not blank is the last argument
ScanFlush(st) ==
    IF trim(st.buffer) # "" THEN Append(st.args, processArg(st.buffer)) ELSE st.args

\* the loop from index i on, st being the locals before iteration i (the test
\* on the buffer changes nothing: it has st evaluated before the next iteration)
RECURSIVE ScanFrom(_, _, _)
ScanFrom(st, s, i) ==
    IF i > Len(s) \/ Len(st.buffer) > Len(s) THEN st
    ELSE ScanFrom(ScanChar(st, s, i), s, i + 1)

parseAttributeArguments(s) ==
    IF trim(s) = "" THEN <<>> ELSE ScanFlush(ScanFrom(ScanInit, s, 1))


(***************************************************************************)
(* The code generator                                                      *)
(***************************************************************************)
\* arg.isExpression as a condition: absent counts as false
argIsExpression(arg) == "isExpression" \in DOMAIN arg /\ arg.isExpression

\* arg.value.startsWith raises a TypeError when the value is undefined
formattedValueRaises(arg) == ~argIsExpression(arg) /\ Get(arg, "value") = Undefined

\* the rendering of one argument of a field attribute
formattedValue_namedOnly(arg) ==
    IF argIsExpression(arg) \/ arg.name = "value" THEN Get(arg, "value")
    ELSE IF startsWith(arg.value, DQ) \/ startsWith(arg.value, SQ) THEN arg.value
    ELSE DQ \o arg.value \o DQ

formattedValue(arg) ==
    IF argIsExpression(arg) THEN Get(arg, "value")
    ELSE IF startsWith(arg.value, DQ) \/ startsWith(arg.value, SQ) THEN arg.value
    ELSE DQ \o arg.value \o DQ

relationArg(arg) == Str(Get(arg, "name")) \o ": " \o Str(Get(arg, "value"))

\* the rendering of a field attribute without the parenthesis added to a default
attributeCode_noClose(attr) ==
    LET args == join(Map(attr.arguments, formattedValue), ", ")
    IN  IF attr.name = "db"
        THEN IF args # "" THEN "@" \o attr.name \o "." \o args ELSE ""
        ELSE IF attr.name = "relation"
        THEN "@" \o attr.name \o "(" \o join(Map(attr.arguments, relationArg), ", ") \o ")"
        ELSE "@" \o attr.name \o (IF args # "" THEN "(" \o args \o ")" ELSE "")

\* the rendering of one field attribute ("" for a db attribute without argument)
attributeCode(attr) ==
    LET args == join(Map(attr.arguments, formattedValue), ", ")
    IN  IF attr.name = "default" /\ includes(args, "(") /\ ~endsWith(args, ")")
        THEN "@" \o attr.name \o "(" \o args \o "))"
        ELSE IF attr.name = "db"
        THEN IF args # "" THEN "@" \o attr.name \o "." \o args ELSE ""
        ELSE IF attr.name = "relation"
        THEN "@" \o attr.name \o "(" \o join(Map(attr.arguments, relationArg), ", ") \o ")"
        ELSE "@" \o attr.name \o (IF args # "" THEN "(" \o args \o ")" ELSE "")

fieldLine(field) ==
    LET type == field.type \o (IF field.isList THEN "[]" ELSE "")
                           \o (IF ~field.isRequired THEN "?" ELSE "")
        attributes == join(Map(field.attributes, attributeCode), " ")
    IN  "  " \o field.name \o " " \o type
             \o (IF attributes # "" THEN " " \o attributes ELSE "")

argValue(arg) == Get(arg, "value")

\* the model attribute written with the names of its arguments
modelAttributeCode_named(attr) ==
    LET args == join(Map(attr.arguments, relationArg), ", ")
    IN  NL \o "  @@" \o attr.type \o (IF args # "" THEN "(" \o args \o ")" ELSE "")

modelAttributeCode(attr) ==
    LET args == join(Map(attr.arguments, argValue), ", ")
    IN  NL \o "  @@" \o attr.type \o (IF args # "" THEN "(" \o args \o ")" ELSE "")

generateModelCode(model) ==
    LET fieldLines == Map(model.fields, fieldLine)
        modelAttributes == join(Map(model.attributes, modelAttributeCode), NL)
        modelBody == join(fieldLines \o (IF modelAttributes # ""
                                         THEN <<modelAttributes>> ELSE <<>>), NL)
    IN  "model " \o model.name \o " {" \o NL \o modelBody \o NL \o "}"

\* the calls that end in a TypeError instead of a text
attributeRaises(attr) ==
    \E k \in 1..Len(attr.arguments) : formattedValueRaises(attr.arguments[k])
fieldRaises(field) ==
    \E k \in 1..Len(field.attributes) : attributeRaises(field.attributes[k])
generateModelCodeRaises(model) ==
    \E k \in 1..Len(model.fields) : fieldRaises(model.fields[k])
generateSchemaCodeRaises(schema) ==
    \E k \in 1..Len(schema.models) : generateModelCodeRaises(schema.models[k])

enumValueLine(value) == "  " \o value

\* an enum written with its id in the place of its name
generateEnumCode_withId(enumData) ==
    "enum " \o enumData.id \o " {" \o NL
        \o join(Map(enumData.values, enumValueLine), NL) \o NL \o "}"

generateEnumCode(enumData) ==
    "enum " \o enumData.name \o " {" \o NL
        \o join(Map(enumData.values, enumValueLine), NL) \o NL \o "}"

inQuotes(f) == DQ \o f \o DQ

datasourceCode(datasource) ==
    "datasource db {" \o NL
        \o "  provider = " \o DQ \o Str(Get(datasource, "provider")) \o DQ \o NL
        \o "  url      = " \o Str(Get(datasource, "url")) \o NL \o "}"

generatorCode(generator) ==
    LET previewFeatures ==
            IF HasItems(generator, "previewFeatures")
            THEN NL \o "  previewFeatures = ["
                    \o join(Map(generator.previewFeatures, inQuotes), ", ") \o "]"
            ELSE ""
        binaryTargets ==
            IF HasItems(generator, "binaryTargets")
            THEN NL \o "  binaryTargets = ["
                    \o join(Map(generator.binaryTargets, inQuotes), ", ") \o "]"
            ELSE ""
        output ==
            IF Get(generator, "output") \notin {Undefined, ""}
            THEN NL \o "  output = " \o DQ \o generator.output \o DQ
            ELSE ""
    IN  "generator client {" \o NL
            \o "  provider = " \o DQ \o Str(Get(generator, "provider")) \o DQ
            \o output \o previewFeatures \o binaryTargets \o NL \o "}"

generateConfigCode(datasource, generator) ==
    datasourceCode(datasource) \o NL \o NL \o generatorCode(generator)

\* sanitizedSchema: the ids of models, fields and enums set to undefined
noFieldId(field) == [field EXCEPT !.id = Undefined]
noModelId(model) == [model EXCEPT !.id = Undefined, !.fields = Map(model.fields, noFieldId)]
noEnumId(enumItem) == [enumItem EXCEPT !.id = Undefined]

sanitizedSchema(schema) ==
    [schema EXCEPT !.models = Map(schema.models, noModelId),
                   !.enums = Map(schema.enums, noEnumId)]

nonEmpty(s) == s # ""

\* sections.join without the filter
sectionsCode_unfiltered(sections) == join(sections, NL \o NL)

\* sections.join of the sections that are not empty
sectionsCode(sections) == join(Filter(sections, nonEmpty), NL \o NL)

generateSchemaCode(schema) ==
    LET s == sanitizedSchema(schema)
        modelsCode == join(Map(s.models, generateModelCode), NL \o NL)
        enumsCode == join(Map(s.enums, generateEnumCode), NL \o NL)
    IN  sectionsCode(<<datasourceCode(s.datasource), generatorCode(s.generator),
                       modelsCode, enumsCode>>)

(***************************************************************************)
(* parseSchema: the regular expressions                                    *)
(***************************************************************************)
\* a line terminator: what . does not match and where $ matches under /m
LineEnd == {NL, "\r"}

NoMatch == [found |-> FALSE]

\* the replace without the g flag: the first comment only
stripComments_firstOnly(s) ==
    LET j == indexOf(s, "//")
        e == FindIn(s, j, LineEnd)
    IN  IF j = 0 THEN s
        ELSE SubSeq(s, 1, j - 1) \o SubSeq(s, e, Len(s))

\* schemaContent.replace(/\/\/.*$/gm, ''): each // up to the end of its line
RECURSIVE stripComments(_)
stripComments(s) ==
    LET j == indexOf(s, "//")
        e == FindIn(s, j, LineEnd)
    IN  IF j = 0 THEN s
        ELSE SubSeq(s, 1, j - 1) \o stripComments(SubSeq(s, e, Len(s)))

\* /kw\s+(\w+)\s*{([^}]*)}/ tried at index p
blockAt(s, p, kw) ==
    LET a == p + Len(kw)
        b == SkipIn(s, a, Space)
        c == SkipIn(s, b, WordChar)
        d == SkipIn(s, c, Space)
        e == FindIn(s, d + 1, {"}"})
    IN  IF At(s, p, kw) /\ b > a /\ c > b /\ Ch(s, d) = "{" /\ e <= Len(s)
        THEN [found |-> TRUE, name |-> SubSeq(s, b, c - 1),
              body |-> SubSeq(s, d + 1, e - 1), end |-> e + 1]
        ELSE NoMatch

\* regex.exec from lastIndex i: the leftmost match
RECURSIVE blockExec(_, _, _)
blockExec(s, i, kw) ==
    LET p == indexFrom(s, kw, i)
        m == blockAt(s, p, kw)
    IN  IF p = 0 THEN NoMatch
        ELSE IF m.found THEN m
        ELSE blockExec(s, p + 1, kw)

\* the matches of the while loop over regex.exec, in order
RECURSIVE blocksFrom(_, _, _)
blocksFrom(s, i, kw) ==
    LET m == blockExec(s, i, kw)
    IN  IF m.found THEN <<m>> \o blocksFrom(s, m.end, kw) ELSE <<>>

\* the blocks, last one first
blocks_reversed(s, kw) ==
    LET q == blocksFrom(s, 1, kw)
    IN  [k \in 1..Len(q) |-> q[Len(q) + 1 - k]]

blocks(s, kw) == blocksFrom(s, 1, kw)

\* /key\s*=\s*["']([^"']+)["']/m tried at index p
quotedKeyAt(s, p, key) ==
    LET a == SkipIn(s, p + Len(key), Space)
        b == SkipIn(s, a + 1, Space)
        e == FindIn(s, b + 1, {DQ, SQ})
    IN  IF /\ At(s, p, key) /\ Ch(s, a) = "=" /\ Ch(s, b) \in {DQ, SQ}
           /\ e > b + 1 /\ e <= Len(s)
        THEN [found |-> TRUE, value |-> SubSeq(s, b + 1, e - 1)]
        ELSE NoMatch

\* /url\s*=\s*(.*)/m tried at index p
lineKeyAt(s, p, key) ==
    LET a == SkipIn(s, p + Len(key), Space)
        b == SkipIn(s, a + 1, Space)
        e == FindIn(s, b, LineEnd)
    IN  IF At(s, p, key) /\ Ch(s, a) = "="
        THEN [found |-> TRUE, value |-> SubSeq(s, b, e - 1)]
        ELSE NoMatch

\* the last index in i..j of s whose character is c (0: none)
lastIn(s, i, j, c) ==
    LET S == {k \in i..j : Ch(s, k) = c}
    IN  IF S = {} THEN 0 ELSE Greatest(S)

\* /key\s*=\s*\[(.*)\]/m tried at index p
listKeyAt(s, p, key) ==
    LET a == SkipIn(s, p + Len(key), Space)
        b == SkipIn(s, a + 1, Space)
        e == lastIn(s, b + 1, FindIn(s, b + 1, LineEnd) - 1, "]")
    IN  IF At(s, p, key) /\ Ch(s, a) = "=" /\ Ch(s, b) = "[" /\ e # 0
        THEN [found |-> TRUE, value |-> SubSeq(s, b + 1, e - 1)]
        ELSE NoMatch

\* regex.exec of one of the three key patterns: the leftmost match
RECURSIVE keyExec(_, _, _, _)
keyExec(s, i, key, kind) ==
    LET p == indexFrom(s, key, i)
        m == CASE kind = "quoted" -> quotedKeyAt(s, p, key)
               [] kind = "line" -> lineKeyAt(s, p, key)
               [] kind = "list" -> listKeyAt(s, p, key)
    IN  IF p = 0 THEN NoMatch
        ELSE IF m.found THEN m
        ELSE keyExec(s, p + 1, key, kind)

\* /@@(\w+)(?:\((.*)\))?/ tried at index p
modelAttrAt(s, p) ==
    LET a == p + 2
        b == SkipIn(s, a, WordChar)
        e == lastIn(s, b + 1, FindIn(s, b + 1, LineEnd) - 1, ")")
    IN  IF At(s, p, "@@") /\ b > a
        THEN [found |-> TRUE, type |-> SubSeq(s, a, b - 1),
              args |-> IF Ch(s, b) = "(" /\ e # 0 THEN SubSeq(s, b + 1, e - 1) ELSE ""]
        ELSE NoMatch

RECURSIVE modelAttrExec(_, _)
modelAttrExec(s, i) ==
    LET p == indexFrom(s, "@@", i)
        m == modelAttrAt(s, p)
    IN  IF p = 0 THEN NoMatch
        ELSE IF m.found THEN m
        ELSE modelAttrExec(s, p + 1)

\* the field tokenizer looking for the ? right after the type word
fieldAt_markBeforeList(s, p) ==
    LET a == SkipIn(s, p, WordChar)
        b == SkipIn(s, a, Space)
        c == SkipIn(s, b, WordChar)
        isList == At(s, c, "[]")
        d == IF isList THEN c + 2 ELSE c
        isOptional == At(s, c, "?")
        e == IF isOptional THEN d + 1 ELSE d
        f == SkipIn(s, e, Space)
        g == FindIn(s, f, LineEnd)
    IN  IF a > p /\ b > a /\ c > b
        THEN [found |-> TRUE, name |-> SubSeq(s, p, a - 1), type |-> SubSeq(s, b, c - 1),
              isList |-> isList, isOptional |-> isOptional,
              attrs |-> IF f > e THEN SubSeq(s, f, g - 1) ELSE ""]
        ELSE NoMatch

\* /(\w+)\s+(\w+)(\[\])?(\?)?(?:\s+(.*))?/ tried at index p
fieldAt(s, p) ==
    LET a == SkipIn(s, p, WordChar)
        b == SkipIn(s, a, Space)
        c == SkipIn(s, b, WordChar)
        isList == At(s, c, "[]")
        d == IF isList THEN c + 2 ELSE c
        isOptional == At(s, d, "?")
        e == IF isOptional THEN d + 1 ELSE d
        f == SkipIn(s, e, Space)
        g == FindIn(s, f, LineEnd)
    IN  IF a > p /\ b > a /\ c > b
        THEN [found |-> TRUE, name |-> SubSeq(s, p, a - 1), type |-> SubSeq(s, b, c - 1),
              isList |-> isList, isOptional |-> isOptional,
              attrs |-> IF f > e THEN SubSeq(s, f, g - 1) ELSE ""]
        ELSE NoMatch

RECURSIVE fieldExec(_, _)
fieldExec(s, i) ==
    LET m == fieldAt(s, i)
    IN  IF i > Len(s) THEN NoMatch
        ELSE IF m.found THEN m
        ELSE fieldExec(s, i + 1)

\* /@(\w+)(?:\((.*?)\))?/g tried at index p
fieldAttrAt(s, p) ==
    LET a == p + 1
        b == SkipIn(s, a, WordChar)
        l == FindIn(s, b + 1, LineEnd)
        e == FindIn(s, b + 1, {")"})
        grouped == Ch(s, b) = "(" /\ e < l
    IN  IF At(s, p, "@") /\ b > a
        THEN [found |-> TRUE, name |-> SubSeq(s, a, b - 1),
              args |-> IF grouped THEN SubSeq(s, b + 1, e - 1) ELSE "",
              end |-> IF grouped THEN e + 1 ELSE b]
        ELSE NoMatch

RECURSIVE fieldAttrExec(_, _)
fieldAttrExec(s, i) ==
    LET p == indexFrom(s, "@", i)
        m == fieldAttrAt(s, p)
    IN  IF p = 0 THEN NoMatch
        ELSE IF m.found THEN m
        ELSE fieldAttrExec(s, p + 1)

(***************************************************************************)
(* parseSchema                                                             *)
(***************************************************************************)
\* the schema parseSchema starts from; initialSchema of the editor page is the same
defaultDatasource == [provider |-> "postgresql", url |-> "env(\"DATABASE_URL\")"]

defaultGenerator ==
    [provider |-> "prisma-client-js", output |-> Undefined,
     previewFeatures |-> <<>>, binaryTargets |-> <<"native">>]

\* a loop that stops replacing once a block has been accepted
parseDatasource_firstWins(ds, body) ==
    LET providerMatch == keyExec(body, 1, "provider", "quoted")
        urlMatch == keyExec(body, 1, "url", "line")
    IN  IF providerMatch.found /\ urlMatch.found /\ ds = defaultDatasource
        THEN [provider |-> providerMatch.value, url |-> trim(urlMatch.value)]
        ELSE ds

\* the datasource after one datasource block (ds: the datasource before it)
parseDatasource(ds, body) ==
    LET providerMatch == keyExec(body, 1, "provider", "quoted")
        urlMatch == keyExec(body, 1, "url", "line")
    IN  IF providerMatch.found /\ urlMatch.found
        THEN [provider |-> providerMatch.value, url |-> trim(urlMatch.value)]
        ELSE ds

\* .split(',').map(f => f.trim().replace(/["']/g, ''))
listItem(f) == stripQuotes(trim(f))
listItems(s) == Map(split(s, ","), listItem)

\* the generator after one generator block (gen: the generator before it)
parseGenerator(gen, body) ==
    LET providerMatch == keyExec(body, 1, "provider", "quoted")
        outputMatch == keyExec(body, 1, "output", "quoted")
        previewFeaturesMatch == keyExec(body, 1, "previewFeatures", "list")
        binaryTargetsMatch == keyExec(body, 1, "binaryTargets", "list")
    IN  IF providerMatch.found
        THEN [provider |-> providerMatch.value,
              output |-> IF outputMatch.found THEN outputMatch.value ELSE Undefined,
              previewFeatures |-> IF previewFeaturesMatch.found
                                  THEN listItems(previewFeaturesMatch.value) ELSE <<>>,
              binaryTargets |-> IF binaryTargetsMatch.found
                                THEN listItems(binaryTargetsMatch.value) ELSE <<"native">>]
        ELSE gen

\* the last occurrence that is complete wins
RECURSIVE foldBlocks(_, _, _)
foldBlocks(F(_, _), acc, bs) ==
    IF bs = <<>> THEN acc ELSE foldBlocks(F, F(acc, bs[1].body), Tail(bs))

\* the attributes of a field: the matches of attrRegex over fieldAttrs, in order
RECURSIVE fieldAttributes(_, _)
fieldAttributes(s, i) ==
    LET m == fieldAttrExec(s, i)
    IN  IF m.found
        THEN <<[name |-> m.name, arguments |-> parseAttributeArguments(m.args)]>>
                 \o fieldAttributes(s, m.end)
        ELSE <<>>

nameValue(arg) == [name |-> arg.name, value |-> arg.value]

\* ids are `<kind>_<Date.now()>_<Math.random()>`: a fresh token per entity, here
\* written from the kind, the draw rnd of the call and the place of the entity
newId(kind, rnd, place) == kind \o "_" \o ToString(rnd) \o "_" \o ToString(place)

\* one line of a model body: the model attribute or the field it adds, if any
parseModelLine(line, fieldId) ==
    LET trimmedLine == trim(line)
        attrMatch == modelAttrExec(trimmedLine, 1)
        fieldMatch == fieldExec(trimmedLine, 1)
    IN  IF trimmedLine = "" THEN [kind |-> "none"]
        ELSE IF startsWith(trimmedLine, "@@")
        THEN IF attrMatch.found
             THEN [kind |-> "attribute",
                   item |-> [type |-> attrMatch.type,
                             arguments |-> Map(parseAttributeArguments(attrMatch.args),
                                               nameValue)]]
             ELSE [kind |-> "none"]
        ELSE IF ~startsWith(trimmedLine, "//") /\ fieldMatch.found
        THEN [kind |-> "field",
              item |-> [id |-> fieldId,
                        name |-> fieldMatch.name,
                        type |-> fieldMatch.type,
                        isList |-> fieldMatch.isList,
                        isRequired |-> ~fieldMatch.isOptional,
                        attributes |-> IF fieldMatch.attrs # ""
                                       THEN fieldAttributes(fieldMatch.attrs, 1)
                                       ELSE <<>>]]
        ELSE [kind |-> "none"]

isField(x) == x.kind = "field"
isAttribute(x) == x.kind = "attribute"
itemOf(x) == x.item

\* the loop leaving the model at the first line that matches nothing
parseModel_stopAtBadLine(m, place, rnd) ==
    LET lines == split(m.body, NL)
        added == [k \in 1..Len(lines) |->
                     parseModelLine(lines[k], newId("field", rnd, <<place, k>>))]
        bad == {k \in 1..Len(lines) : trim(lines[k]) # "" /\ added[k].kind = "none"}
        kept == SubSeq(added, 1, IF bad = {} THEN Len(lines) ELSE Least(bad) - 1)
    IN  [id |-> newId("model", rnd, place), name |-> m.name,
         fields |-> Map(Filter(kept, isField), itemOf),
         attributes |-> Map(Filter(kept, isAttribute), itemOf)]

\* the loop over the lines of a model body: fields and attributes in line order
parseModel(m, place, rnd) ==
    LET lines == split(m.body, NL)
        added == [k \in 1..Len(lines) |->
                     parseModelLine(lines[k], newId("field", rnd, <<place, k>>))]
    IN  [id |-> newId("model", rnd, place), name |-> m.name,
         fields |-> Map(Filter(added, isField), itemOf),
         attributes |-> Map(Filter(added, isAttribute), itemOf)]

enumValue(line) == line # "" /\ ~startsWith(line, "//")

parseEnum(m, place, rnd) ==
    [id |-> newId("enum", rnd, place), name |-> m.name,
     values |-> Filter(Map(split(m.body, NL), trim), enumValue)]

\* the body of the try block once the comments are stripped: the Document that
\* is returned; rnd stands for the clock and the random numbers
parseContent(contentWithoutComments, rnd) ==
    LET modelBlocks == blocks(contentWithoutComments, "model")
        enumBlocks == blocks(contentWithoutComments, "enum")
    IN  [models |-> [k \in 1..Len(modelBlocks) |-> parseModel(modelBlocks[k], k, rnd)],
         enums |-> [k \in 1..Len(enumBlocks) |-> parseEnum(enumBlocks[k], k, rnd)],
         datasource |-> foldBlocks(parseDatasource, defaultDatasource,
                                   blocks(contentWithoutComments, "datasource")),
         generator |-> foldBlocks(parseGenerator, defaultGenerator,
                                  blocks(contentWithoutComments, "generator"))]

\* schemaContent.replace raises a TypeError when schemaContent is no string
faults(schemaContent) == schemaContent = Undefined

\* parseSchema(schemaContent): null when the try block raised
parseSchema(schemaContent, rnd) ==
    IF faults(schemaContent) THEN Null
    ELSE parseContent(stripComments(schemaContent), rnd)

(***************************************************************************)
(* Documents handed to the generator                                       *)
(***************************************************************************)
MaxFields == 2     \* fields of a model
MaxModels == 2     \* models of a Document
MaxEnums == 2      \* enums of a Document
IdSeeds == {1, 2}  \* draws of the clock and the random numbers

\* the sequences 1..n -> 1..m that increase strictly: the ways to pick n of m in order
Increasing(n, m) == {q \in [1..n -> 1..m] : \A k \in 1..(n - 1) : q[k] < q[k + 1]}

\* the sequences of at most n elements of pool, in the order of pool, none twice
Picks(pool, n) ==
    UNION {{[k \in 1..l |-> pool[q[k]]] : q \in Increasing(l, Len(pool))} : l \in 0..n}

\* all sequences of at most n elements of pool
Seqs(pool, n) ==
    UNION {{[k \in 1..l |-> pool[q[k]]] : q \in [1..l -> 1..Len(pool)]} : l \in 0..n}

Arg(name, value, isExpression) ==
    [name |-> name, value |-> value, isExpression |-> isExpression]
Attr(name, arguments) == [name |-> name, arguments |-> arguments]
Fld(name, type, isList, isRequired, attributes) ==
    [id |-> Undefined, name |-> name, type |-> type, isList |-> isList,
     isRequired |-> isRequired, attributes |-> attributes]

\* fields as ModelEditor builds them
FieldPool ==
    <<Fld("id", "String", FALSE, TRUE,
          <<Attr("id", <<>>), Attr("default", <<Arg("value", "cuid()", TRUE)>>)>>),
      Fld("name", "String", FALSE, TRUE, <<>>),
      Fld("age", "Int", FALSE, FALSE, <<>>),
      Fld("tags", "String", TRUE, TRUE, <<>>),
      Fld("createdAt", "DateTime", FALSE, TRUE,
          <<Attr("default", <<Arg("value", "now()", TRUE)>>), Attr("updatedAt", <<>>)>>),
      Fld("title", "String", FALSE, TRUE,
          <<Attr("unique", <<>>), Attr("default", <<Arg("value", "\"\"", FALSE)>>)>>),
      Fld("code", "String", FALSE, TRUE,
          <<Attr("db", <<Arg("value", "VarChar(9)", TRUE)>>), Attr("unique", <<>>)>>),
      Fld("role", "Role", FALSE, TRUE,
          <<Attr("default", <<Arg("value", "Role.USER", TRUE)>>)>>),
      Fld("owner", "User", FALSE, FALSE,
          <<Attr("relation", <<Arg("fields", "[ownerId]", TRUE),
                               Arg("references", "[id]", TRUE)>>)>>)>>

ModelAttributePool ==
    <<<<>>,
      <<[type |-> "index", arguments |-> <<[name |-> "fields", value |-> "[id]"]>>]>>,
      <<[type |-> "map", arguments |-> <<[name |-> "value", value |-> "\"users\""]>>],
        [type |-> "ignore", arguments |-> <<>>]>>>>

Mdl(name, fields, attributes) ==
    [id |-> Undefined, name |-> name, fields |-> fields, attributes |-> attributes]

\* one model of every choice of fields, and one of every choice of model attributes
WideModels ==
    {Mdl("User", fs, <<>>) : fs \in Picks(FieldPool, MaxFields)}
        \cup {Mdl("User", <<FieldPool[2]>>, ModelAttributePool[k]) :
                  k \in 1..Len(ModelAttributePool)}

ModelPool ==
    <<Mdl("User", <<FieldPool[1], FieldPool[2]>>, <<>>),
      Mdl("Post", <<FieldPool[3]>>, ModelAttributePool[3])>>

EnumPool ==
    <<[id |-> Undefined, name |-> "Role", values |-> <<"USER", "ADMIN">>],
      [id |-> Undefined, name |-> "Kind", values |-> <<>>]>>

DatasourcePool ==
    {defaultDatasource, [provider |-> "sqlite", url |-> "\"file:dev.db\""]}

GeneratorPool ==
    {defaultGenerator,
     [defaultGenerator EXCEPT !.binaryTargets = <<>>],
     [provider |-> "prisma-client-js", output |-> "../gen",
      previewFeatures |-> <<"views", "metrics">>, binaryTargets |-> <<"native", "darwin">>]}

\* the Documents of the runs, before the editing layer gives them ids
Shapes ==
    {[models |-> <<m>>, enums |-> <<>>, datasource |-> defaultDatasource,
      generator |-> defaultGenerator] : m \in WideModels}
        \cup {[models |-> ms, enums |-> es, datasource |-> ds, generator |-> g] :
                  ms \in Seqs(ModelPool, MaxModels), es \in Picks(EnumPool, MaxEnums),
                  ds \in DatasourcePool, g \in GeneratorPool}

\* Documents with parts left out
\* an argument without a value: its isExpression absent, true or false
NoValue(flag) ==
    IF flag = "absent" THEN [name |-> "value"]
    ELSE [name |-> "value", isExpression |-> (flag = "expression")]

IncompleteModels ==
    {Mdl("User", <<Fld("slug", "String", FALSE, TRUE,
                       <<Attr("unique", <<>>), Attr(name, <<NoValue(flag)>>)>>)>>, <<>>) :
         name \in {"default", "map", "relation"},
         flag \in {"absent", "expression", "literal"}}
        \cup {Mdl("User", <<FieldPool[2]>>,
                  <<[type |-> "index", arguments |-> <<[name |-> "fields"]>>]>>)}

IncompleteShapes ==
    {[models |-> <<m>>, enums |-> <<>>, datasource |-> defaultDatasource,
      generator |-> defaultGenerator] : m \in IncompleteModels}
        \cup {[models |-> <<>>, enums |-> <<>>, datasource |-> ds, generator |-> g] :
                  ds \in {defaultDatasource, [url |-> "env(\"DATABASE_URL\")"]},
                  g \in {[provider |-> "prisma-client-js"], [output |-> "../gen"]}}

\* Documents whose field has default or db attributes of every shape: a call
\* left open, a call, a literal with a parenthesis in it; a db type with and
\* without its argument, before and after another attribute
RenderedAttributes ==
    {<<Attr("default", <<Arg("value", v, TRUE)>>)>> : v \in {"uuid(", "autoincrement()"}}
        \cup {<<Attr("default", <<Arg("value", "\"(none)\"", FALSE)>>)>>,
              <<Attr("db", <<>>)>>,
              <<Attr("db", <<>>), Attr("unique", <<>>)>>,
              <<Attr("unique", <<>>), Attr("db", <<>>)>>,
              <<Attr("unique", <<>>), Attr("db", <<Arg("value", "", TRUE)>>),
                Attr("map", <<Arg("value", "\"s\"", FALSE)>>)>>,
              <<Attr("unique", <<>>), Attr("db", <<Arg("value", "Text", TRUE)>>)>>}
        \cup {<<Attr("map", <<Arg(name, value, FALSE)>>)>> :
                  name \in {"name", "value"}, value \in {"col", "\"col\"", "'col'"}}
        \cup {<<Attr("ignore", <<>>),
                Attr("custom", <<Arg("value", "1", TRUE), Arg("sort", "Desc", TRUE)>>)>>}

RenderedShapes ==
    {[models |-> <<Mdl("User", <<Fld("slug", "String", FALSE, TRUE, as)>>, <<>>)>>,
      enums |-> <<>>, datasource |-> defaultDatasource,
      generator |-> defaultGenerator] : as \in RenderedAttributes}

\* the ids the editing layer gives: tokens that differ from entity to entity
withFieldId(field, rnd, place) == [field EXCEPT !.id = newId("field", rnd, place)]
withIds(schema, rnd) ==
    [schema EXCEPT
        !.models = [k \in 1..Len(schema.models) |->
            [schema.models[k] EXCEPT
                !.id = newId("model", rnd, k),
                !.fields = [j \in 1..Len(schema.models[k].fields) |->
                               withFieldId(schema.models[k].fields[j], rnd, <<k, j>>)]]],
        !.enums = [k \in 1..Len(schema.enums) |->
            [schema.enums[k] EXCEPT !.id = newId("enum", rnd, k)]]]

Documents == {withIds(d, 0) : d \in Shapes \cup IncompleteShapes \cup RenderedShapes}

(***************************************************************************)
(* Generate, parse, generate again                                         *)
(***************************************************************************)
InitGen ==
    /\ pc = "document"
    /\ doc \in Documents
    /\ src = <<>> /\ text = None /\ parsed = Null /\ text2 = None
    /\ argsStr = None /\ pos = 0 /\ scan = Null /\ result = <<>>
    /\ previous = Null /\ content = None
    /\ NoPage

\* generateSchemaCode writing the sanitized models and enums into its argument
Generate_inPlace ==
    /\ pc = "document"
    /\ ~generateSchemaCodeRaises(doc)
    /\ text' = generateSchemaCode(doc)
    /\ doc' = sanitizedSchema(doc)
    /\ pc' = "generated"
    /\ UNCHANGED <<page, src, parsed, text2, argsStr, pos, scan, result, previous, content>>

\* generateSchemaCode(doc), as handleExportSchema and SchemaPreview call it
Generate ==
    /\ pc = "document"
    /\ ~generateSchemaCodeRaises(doc)
    /\ text' = generateSchemaCode(doc)
    /\ pc' = "generated"
    /\ UNCHANGED <<page, doc, src, parsed, text2, argsStr, pos, scan, result, previous, content>>

\* parseSchema(text), as handleImportSchema calls it
Parse ==
    /\ pc = "generated"
    /\ \E rnd \in IdSeeds : parsed' = parseSchema(text, rnd)
    /\ pc' = "parsed"
    /\ UNCHANGED <<page, doc, src, text, text2, argsStr, pos, scan, result, previous, content>>

\* generateSchemaCode of the parsed Document
Regenerate ==
    /\ pc = "parsed"
    /\ text2' = generateSchemaCode(parsed)
    /\ pc' = "regenerated"
    /\ UNCHANGED <<page, doc, src, text, parsed, argsStr, pos, scan, result, previous, content>>

\* generateModelCode(model), as ModelEditor calls it on a model of the schema
ShowModelCode ==
    /\ pc = "document"
    /\ \E k \in 1..Len(doc.models) :
          /\ ~generateModelCodeRaises(doc.models[k])
          /\ text' = generateModelCode(doc.models[k])
    /\ pc' = "shown"
    /\ UNCHANGED <<page, doc, src, parsed, text2, argsStr, pos, scan, result, previous, content>>

\* generateEnumCode(enumData), as EnumEditor calls it on an enum of the schema
ShowEnumCode ==
    /\ pc = "document"
    /\ \E k \in 1..Len(doc.enums) : text' = generateEnumCode(doc.enums[k])
    /\ pc' = "shown"
    /\ UNCHANGED <<page, doc, src, parsed, text2, argsStr, pos, scan, result, previous, content>>

\* generateConfigCode(datasource, generator), as ConfigPreview calls it
ShowConfigCode ==
    /\ pc = "document"
    /\ text' = generateConfigCode(doc.datasource, doc.generator)
    /\ pc' = "shown"
    /\ UNCHANGED <<page, doc, src, parsed, text2, argsStr, pos, scan, result, previous, content>>

\* a TypeError leaves generateSchemaCode, or generateModelCode on a model
Raise ==
    /\ pc = "document"
    /\ generateSchemaCodeRaises(doc)
    /\ pc' = "raised"
    /\ UNCHANGED <<page, doc, src, text, parsed, text2, argsStr, pos, scan, result, previous,
                   content>>

\* a second parseSchema(text) while the caller holds the Document of the first
ParseAgain ==
    /\ pc = "parsed"
    /\ previous' = parsed
    /\ \E rnd \in IdSeeds : parsed' = parseSchema(text, rnd)
    /\ pc' = "parsedAgain"
    /\ UNCHANGED <<page, doc, src, text, text2, argsStr, pos, scan, result, content>>

NextGen ==
    \/ Generate \/ Parse \/ Regenerate
    \/ ShowModelCode \/ ShowEnumCode \/ ShowConfigCode \/ ParseAgain \/ Raise

SpecGen == InitGen /\ [][NextGen]_vars

(***************************************************************************)
(* Schema texts to parse, written line by line                             *)
(***************************************************************************)
MaxLines == 2      \* field lines of a model block
MaxBlocks == 3     \* blocks of a schema text

\* an attribute as written on a field line: @name, or @name(args) when args is given
Written(name, args, class) == [name |-> name, args |-> args, class |-> class]
Line(name, type, isList, isOptional, attrs) ==
    [name |-> name, type |-> type, isList |-> isList, isOptional |-> isOptional,
     attrs |-> attrs]

Bare(name) == Written(name, Undefined, "bare")
BuiltinCalls == {"autoincrement()", "cuid()", "uuid()", "auto()", "now()"}

LinePool ==
    <<Line("id", "String", FALSE, FALSE,
           <<Bare("id"), Written("default", "cuid()", "call")>>),
      Line("name", "String", FALSE, FALSE, <<>>),
      Line("age", "Int", FALSE, TRUE, <<>>),
      Line("tags", "String", TRUE, FALSE, <<>>),
      Line("opts", "Json", TRUE, TRUE, <<>>),
      Line("createdAt", "DateTime", FALSE, FALSE,
           <<Written("default", "now()", "call"), Bare("updatedAt")>>),
      Line("status", "Status", FALSE, FALSE,
           <<Written("default", "Status.ACTIVE", "member")>>),
      Line("title", "String", FALSE, TRUE, <<Written("default", "\"x\"", "literal")>>),
      Line("n", "Int", FALSE, FALSE,
           <<Bare("id"), Written("default", "autoincrement()", "call")>>),
      Line("flag", "Boolean", FALSE, TRUE, <<Written("default", "true", "identifier")>>),
      Line("nums", "Int", TRUE, FALSE, <<Written("default", "[1, 2]", "list")>>),
      Line("email", "String", FALSE, TRUE, <<Bare("unique")>>),
      Line("uid", "String", FALSE, FALSE,
           <<Written("default", "uuid()", "call"), Bare("unique")>>),
      Line("oid", "String", FALSE, FALSE,
           <<Bare("id"), Written("default", "auto()", "call")>>),
      Line("ref", "String", FALSE, FALSE,
           <<Written("default", "dbgenerated(\"x\")", "call")>>)>>

Gaps == {" ", "   "}  \* the white space between the words of a field line

writtenText(a) == "@" \o a.name \o (IF a.args = Undefined THEN "" ELSE "(" \o a.args \o ")")
lineText(l, gap) ==
    "  " \o l.name \o gap \o l.type \o (IF l.isList THEN "[]" ELSE "")
         \o (IF l.isOptional THEN "?" ELSE "")
         \o (IF Len(l.attrs) > 0 THEN gap \o join(Map(l.attrs, writtenText), " ") ELSE "")

ModelBlock(name, lines, gap) ==
    [kind |-> "model", name |-> name, lines |-> lines, gap |-> gap]
EnumBlock(name, values) ==
    [kind |-> "enum", name |-> name, lines |-> values, gap |-> " "]

linesText(b) ==
    IF b.kind = "model" THEN join([k \in 1..Len(b.lines) |-> lineText(b.lines[k], b.gap)], NL)
    ELSE join([k \in 1..Len(b.lines) |-> "  " \o b.lines[k]], NL)
blockText(b) == b.kind \o " " \o b.name \o " {" \o NL \o linesText(b) \o NL \o "}"
sourceText(bs) == join(Map(bs, blockText), NL \o NL)

Reverse(q) == [k \in 1..Len(q) |-> q[Len(q) + 1 - k]]

\* the line lists of a model block: picked from the pool, in its order or against it
LineLists ==
    Picks(LinePool, MaxLines) \cup {Reverse(q) : q \in Picks(LinePool, MaxLines)}

BlockPool ==
    <<ModelBlock("User", <<LinePool[1], LinePool[2]>>, " "),
      ModelBlock("Post", <<LinePool[3]>>, " "),
      EnumBlock("Role", <<"USER", "ADMIN">>),
      EnumBlock("Kind", <<"A">>)>>

Sources ==
    {<<ModelBlock("User", ls, gap)>> : ls \in LineLists, gap \in Gaps}
        \cup Seqs(BlockPool, MaxBlocks)

(***************************************************************************)
(* Parse a schema text                                                     *)
(***************************************************************************)
InitParse ==
    /\ pc = "source"
    /\ src \in Sources
    /\ text = sourceText(src)
    /\ doc = Null /\ parsed = Null /\ text2 = None
    /\ argsStr = None /\ pos = 0 /\ scan = Null /\ result = <<>>
    /\ previous = Null /\ content = None
    /\ NoPage

\* parseSchema(text), as handleImportSchema calls it on the text the user gives
Import ==
    /\ pc = "source"
    /\ \E rnd \in IdSeeds : parsed' = parseSchema(text, rnd)
    /\ pc' = "imported"
    /\ UNCHANGED <<page, doc, src, text, text2, argsStr, pos, scan, result, previous, content>>

\* generateSchemaCode of the imported Document, as SchemaPreview shows it
Preview ==
    /\ pc = "imported"
    /\ parsed # Null
    /\ text2' = generateSchemaCode(parsed)
    /\ pc' = "previewed"
    /\ UNCHANGED <<page, doc, src, text, parsed, argsStr, pos, scan, result, previous, content>>

NextParse == Import \/ Preview

SpecParse == InitParse /\ [][NextParse]_vars

(***************************************************************************)
(* The argument scanner, one character of the loop at a time               *)
(***************************************************************************)
MaxArgLen == 4     \* characters of an argument string

ArgChars == <<"a", ",", ":", "[", "]", DQ, SQ, BS, " ">>

\* argument strings of the attributes of real schemas
ArgSamples ==
    {"a: 1, b: [x, y], c: \"a,b\"",
     "fields: [authorId], references: [id]",
     "\"x\"", "now()", "Status.ACTIVE", "[1, 2]", "cuid(",
     "map: \"a:b\", 'q,r'", "f(a, {b: 1}), g", "\"a\\\"b,c\", d", "  "}

\* the string of the characters of ArgChars at the indexes q
Spell(q) == join([k \in 1..Len(q) |-> ArgChars[q[k]]], "")

InitScan ==
    /\ \/ argsStr \in ArgSamples
       \/ \E l \in 0..MaxArgLen : \E q \in [1..l -> 1..Len(ArgChars)] : argsStr = Spell(q)
    /\ pc = IF trim(argsStr) = "" THEN "returned" ELSE "scanning"
    /\ pos = 1
    /\ scan = ScanInit
    /\ result = <<>>
    /\ doc = Null /\ src = <<>> /\ text = None /\ parsed = Null /\ text2 = None
    /\ previous = Null /\ content = None
    /\ NoPage

\* one iteration of the loop over the characters of argsStr
ScanStep ==
    /\ pc = "scanning"
    /\ pos <= Len(argsStr)
    /\ scan' = ScanChar(scan, argsStr, pos)
    /\ pos' = pos + 1
    /\ UNCHANGED <<page, pc, doc, src, text, parsed, text2, argsStr, result, previous, content>>

\* after the loop: the last buffer is processed and the list is returned
ScanReturn ==
    /\ pc = "scanning"
    /\ pos > Len(argsStr)
    /\ result' = ScanFlush(scan)
    /\ pc' = "returned"
    /\ UNCHANGED <<page, doc, src, text, parsed, text2, argsStr, pos, scan, previous, content>>

NextScan == ScanStep \/ ScanReturn

SpecScan == InitScan /\ [][NextScan]_vars

(***************************************************************************)
(* parseSchema on raw texts, its steps one at a time                       *)
(***************************************************************************)
MaxPieces == 2     \* pieces of a raw text

\* a piece of text, the kind of block it holds, and what the block describes
\* once the comments are stripped
Piece(txt, kind, described) == [text |-> txt, kind |-> kind, described |-> described]

PiecePool ==
    <<Piece("datasource db {\n  provider = \"postgresql\"\n  url      = env(\"DATABASE_URL\")\n}",
            "datasource", [provider |-> "postgresql", url |-> "env(\"DATABASE_URL\")"]),
      Piece("datasource lite {\n  provider = 'sqlite'\n  url = \"file:dev.db\" // local // file\n}",
            "datasource", [provider |-> "sqlite", url |-> "\"file:dev.db\""]),
      Piece("datasource db {\n  url = \"mysql://host/db\"\n  provider = \"mysql\"\n}",
            "datasource", [provider |-> "mysql", url |-> "\"mysql:"]),
      Piece("datasource db {\n  provider = \"mongodb\"\n}",
            "datasource", [provider |-> "mongodb"]),
      Piece("generator client {\n  provider = \"prisma-client-js\"\n}",
            "generator",
            [provider |-> "prisma-client-js", output |-> Undefined,
             previewFeatures |-> <<>>, binaryTargets |-> <<"native">>]),
      Piece("generator js {\n  provider = \"other\"\n  output = \"../gen\"\n  previewFeatures = [\"views\"]\n  binaryTargets = [\"native\", 'darwin']\n}",
            "generator",
            [provider |-> "other", output |-> "../gen",
             previewFeatures |-> <<"views">>, binaryTargets |-> <<"native", "darwin">>]),
      Piece("generator bad {\n  output = \"out\"\n}",
            "generator", [output |-> "out"]),
      Piece("// model Ghost {\n//   id Int\n// }", "comment", <<>>),
      Piece("model User {\n  id Int @id // key\n  name String\n}", "model",
            [name |-> "User", fields |-> <<"id", "name">>, attributes |-> <<>>]),
      Piece("model Post {\n  id Int @id\n  title\n  ???\n  body String?\n\n  @@\n  @@index([id])\n  name: String\n  @@map(\"posts\")\n}",
            "model",
            [name |-> "Post", fields |-> <<"id", "body">>, attributes |-> <<"index", "map">>]),
      Piece("model Tag {\n  = 1\n  label\n}", "model",
            [name |-> "Tag", fields |-> <<>>, attributes |-> <<>>]),
      Piece("model {\n  id Int\n}", "malformed", <<>>),
      Piece("enum Kind {\r\n  A // first\r\n  B\r\n}", "enum", <<>>),
      Piece("enum Role {\n  USER", "malformed", <<>>)>>

pieceText(p) == p.text
rawText(ps) == join(Map(ps, pieceText), NL \o NL)

InitRaw ==
    /\ pc = "raw"
    /\ \/ src \in Seqs(PiecePool, MaxPieces) /\ text = rawText(src)
       \/ src = <<>> /\ text = Undefined
    /\ doc = Null /\ parsed = Null /\ text2 = None
    /\ argsStr = None /\ pos = 0 /\ scan = Null /\ result = <<>>
    /\ previous = Null /\ content = None
    /\ NoPage

\* the fault without a catch: it leaves parseSchema
Fault_uncaught ==
    /\ pc = "raw"
    /\ faults(text)
    /\ pc' = "raised"
    /\ UNCHANGED <<page, doc, src, text, parsed, text2, argsStr, pos, scan, result, previous,
                   content>>

\* the try block raises at its first statement and the catch returns null
Fault ==
    /\ pc = "raw"
    /\ faults(text)
    /\ parsed' = Null
    /\ pc' = "returned"
    /\ UNCHANGED <<page, doc, src, text, text2, argsStr, pos, scan, result, previous, content>>

\* const contentWithoutComments = schemaContent.replace(/\/\/.*$/gm, '')
StripComments ==
    /\ pc = "raw"
    /\ ~faults(text)
    /\ content' = stripComments(text)
    /\ pc' = "stripped"
    /\ UNCHANGED <<page, doc, src, text, parsed, text2, argsStr, pos, scan, result, previous>>

\* the rest of the try block: the four loops over the blocks, return schema
MatchBlocks ==
    /\ pc = "stripped"
    /\ \E rnd \in IdSeeds : parsed' = parseContent(content, rnd)
    /\ pc' = "returned"
    /\ UNCHANGED <<page, doc, src, text, text2, argsStr, pos, scan, result, previous, content>>

NextRaw == Fault \/ StripComments \/ MatchBlocks

SpecRaw == InitRaw /\ [][NextRaw]_vars

(***************************************************************************)
(* The editor page: its state and its handlers                             *)
(***************************************************************************)
MaxClock == 5      \* handler calls of a run of the page

initialSchema ==
    [models |-> <<>>, enums |-> <<>>, datasource |-> defaultDatasource,
     generator |-> defaultGenerator]

\* the texts given to the import: no text at all, a model and an enum, an enum
ImportTexts ==
    {Undefined,
     "model User {\n  id Int @id\n}\n\nenum Role {\n  USER\n}",
     "enum Kind {\n  A\n}"}

idOf(x) == x.id
ids(q) == {q[k].id : k \in 1..Len(q)}

InitPage ==
    /\ pc = "page"
    /\ editorSchema = initialSchema
    /\ activeItem = nullItem
    /\ showPreview = FALSE /\ showERD = FALSE
    /\ now = 0
    /\ call = [op |-> "mount"]
    /\ doc = Null /\ src = <<>> /\ text = None /\ parsed = Null /\ text2 = None
    /\ argsStr = None /\ pos = 0 /\ scan = Null /\ result = <<>>
    /\ previous = Null /\ content = None

\* a handler is called at a time of its own
Tick == now < MaxClock /\ now' = now + 1

handleSelectItem(itemType, itemId) ==
    /\ pc = "page" /\ Tick
    /\ activeItem' = itemType \o "-" \o itemId
    /\ showPreview' = FALSE
    /\ showERD' = FALSE
    /\ call' = [op |-> "handleSelectItem", itemType |-> itemType, itemId |-> itemId]
    /\ UNCHANGED <<pc, editorSchema, transform>>

\* the items of the sidebar: every model, every enum, the two config items
SelectItem ==
    \/ \E id \in ids(editorSchema.models) : handleSelectItem("model", id)
    \/ \E id \in ids(editorSchema.enums) : handleSelectItem("enum", id)
    \/ handleSelectItem("datasource", "db")
    \/ handleSelectItem("generator", "client")

handleNewModel ==
    /\ pc = "page" /\ Tick
    /\ LET newModel == [id |-> "model_" \o ToString(now),
                        name |-> "Model" \o ToString(Len(editorSchema.models) + 1),
                        fields |-> <<>>, attributes |-> <<>>]
       IN  /\ editorSchema' = [editorSchema EXCEPT !.models = Append(@, newModel)]
           /\ activeItem' = "model-" \o newModel.id
           /\ call' = [op |-> "handleNewModel", id |-> newModel.id]
    /\ showPreview' = FALSE
    /\ UNCHANGED <<pc, showERD, transform>>

handleNewEnum ==
    /\ pc = "page" /\ Tick
    /\ LET newEnum == [id |-> "enum_" \o ToString(now),
                       name |-> "Enum" \o ToString(Len(editorSchema.enums) + 1),
                       values |-> <<>>]
       IN  /\ editorSchema' = [editorSchema EXCEPT !.enums = Append(@, newEnum)]
           /\ activeItem' = "enum_" \o newEnum.id
           /\ call' = [op |-> "handleNewEnum", id |-> newEnum.id]
    /\ showPreview' = FALSE
    /\ UNCHANGED <<pc, showERD, transform>>

\* Array.prototype.filter(x => x.id !== id)
withoutId(q, id) == LET other(x) == x.id # id IN Filter(q, other)

handleDeleteModel(modelId) ==
    /\ pc = "page" /\ Tick
    /\ editorSchema' = [editorSchema EXCEPT !.models = withoutId(@, modelId)]
    /\ activeItem' = IF activeItem = "model_" \o modelId THEN nullItem ELSE activeItem
    /\ call' = [op |-> "handleDeleteModel", id |-> modelId]
    /\ UNCHANGED <<pc, showPreview, showERD, transform>>

handleDeleteEnum(enumId) ==
    /\ pc = "page" /\ Tick
    /\ editorSchema' = [editorSchema EXCEPT !.enums = withoutId(@, enumId)]
    /\ activeItem' = IF activeItem = "enum_" \o enumId THEN nullItem ELSE activeItem
    /\ call' = [op |-> "handleDeleteEnum", id |-> enumId]
    /\ UNCHANGED <<pc, showPreview, showERD, transform>>

\* the delete buttons of the sidebar: one on every model, one on every enum
DeleteItem ==
    \/ \E id \in ids(editorSchema.models) : handleDeleteModel(id)
    \/ \E id \in ids(editorSchema.enums) : handleDeleteEnum(id)

\* parseSchema(schemaContent) of every text of ImportTexts, for every choice
\* of the ids it draws
parsedSchemas ==
    [schemaContent \in ImportTexts |->
        {parseSchema(schemaContent, rnd) : rnd \in IdSeeds}]

\* an import that drops the active item whatever parseSchema returns
handleImportSchema_clearing(schemaContent) ==
    /\ pc = "page" /\ Tick
    /\ \E parsedSchema \in parsedSchemas[schemaContent] :
          editorSchema' = IF parsedSchema # Null THEN parsedSchema ELSE editorSchema
    /\ activeItem' = nullItem
    /\ call' = [op |-> "handleImportSchema", schemaContent |-> schemaContent]
    /\ UNCHANGED <<pc, showPreview, showERD, transform>>

\* parseSchema gives every model and enum an id, so modelsWithIds and
\* enumsWithIds are the models and enums it returns
handleImportSchema(schemaContent) ==
    /\ pc = "page" /\ Tick
    /\ \E parsedSchema \in parsedSchemas[schemaContent] :
          IF parsedSchema # Null
          THEN editorSchema' = parsedSchema /\ activeItem' = nullItem
          ELSE UNCHANGED <<editorSchema, activeItem>>
    /\ call' = [op |-> "handleImportSchema", schemaContent |-> schemaContent]
    /\ UNCHANGED <<pc, showPreview, showERD, transform>>

ImportSchema == \E schemaContent \in ImportTexts : handleImportSchema(schemaContent)

\* togglePreview leaving the diagram as it is
togglePreview_alone ==
    /\ pc = "page" /\ Tick
    /\ showPreview' = ~showPreview
    /\ activeItem' = IF ~showPreview THEN nullItem ELSE activeItem
    /\ call' = [op |-> "togglePreview"]
    /\ UNCHANGED <<pc, editorSchema, showERD, transform>>

togglePreview ==
    /\ pc = "page" /\ Tick
    /\ showPreview' = ~showPreview
    /\ IF ~showPreview
       THEN activeItem' = nullItem /\ showERD' = FALSE
       ELSE UNCHANGED <<activeItem, showERD>>
    /\ call' = [op |-> "togglePreview"]
    /\ UNCHANGED <<pc, editorSchema, transform>>

toggleERD ==
    /\ pc = "page" /\ Tick
    /\ showERD' = ~showERD
    /\ IF ~showERD
       THEN activeItem' = nullItem /\ showPreview' = FALSE
       ELSE UNCHANGED <<activeItem, showPreview>>
    /\ call' = [op |-> "toggleERD"]
    /\ UNCHANGED <<pc, editorSchema, transform>>

\* what the page shows: the first two parts of activeItem split at "-"
getActiveContent ==
    LET parts == split(activeItem, "-")
        itemType == parts[1]
        itemId == IF Len(parts) > 1 THEN parts[2] ELSE Undefined
    IN  IF showERD THEN [shows |-> "ERDDiagram"]
        ELSE IF showPreview THEN [shows |-> "SchemaPreview"]
        ELSE IF activeItem = nullItem THEN [shows |-> "welcome"]
        ELSE IF itemType = "model" /\ itemId \in ids(editorSchema.models)
        THEN [shows |-> "ModelEditor", id |-> itemId]
        ELSE IF itemType = "enum" /\ itemId \in ids(editorSchema.enums)
        THEN [shows |-> "EnumEditor", id |-> itemId]
        ELSE IF itemType \in {"datasource", "generator"}
        THEN [shows |-> "ConfigEditor", id |-> itemType]
        ELSE [shows |-> "nothing"]

NextPage ==
    \/ SelectItem
    \/ handleNewModel
    \/ handleNewEnum
    \/ DeleteItem
    \/ ImportSchema
    \/ togglePreview
    \/ toggleERD

SpecPage == InitPage /\ [][NextPage]_vars

\* the page with its create and delete buttons only, from the empty schema
NextCreateDelete ==
    \/ handleNewModel
    \/ handleNewEnum
    \/ DeleteItem

SpecCreateDelete == InitPage /\ [][NextCreateDelete]_vars

(***************************************************************************)
(* ModelEditor and EnumEditor on the active item of the page               *)
(***************************************************************************)
\* fields whose attributes the editor has inputs for, at every place of the list
EditFieldPool ==
    <<Fld("slug", "String", FALSE, TRUE,
          <<Attr("map", <<Arg("name", "\"a\"", FALSE)>>)>>),
      Fld("code", "String", FALSE, TRUE,
          <<Attr("unique", <<>>), Attr("map", <<Arg("name", "\"a\"", FALSE)>>)>>),
      Fld("at", "DateTime", FALSE, TRUE,
          <<Attr("default", <<Arg("value", "now()", TRUE)>>),
            Attr("map", <<Arg("name", "\"a\"", FALSE)>>)>>),
      Fld("note", "String", FALSE, FALSE,
          <<Attr("db", <<Arg("value", "Text", TRUE)>>), Attr("map", <<>>)>>),
      Fld("n", "Int", FALSE, TRUE,
          <<Attr("id", <<>>), Attr("db", <<Arg("value", "", TRUE)>>)>>),
      Fld("owner", "User", FALSE, FALSE,
          <<Attr("relation", <<Arg("name", "\"owner\"", FALSE),
                               Arg("fields", "[]", TRUE),
                               Arg("references", "[]", TRUE)>>)>>),
      Fld("post", "Post", FALSE, FALSE,
          <<Attr("map", <<Arg("name", "\"p\"", FALSE)>>),
            Attr("relation", <<Arg("fields", "[]", TRUE),
                               Arg("onDelete", "Cascade", TRUE)>>)>>)>>

MaxEditFields == 2  \* fields of the model the editor is open on

EditValues == <<"A", "B", "A">>

\* the schema the editors are opened on: one model, one enum
EditSchemas ==
    {withIds([initialSchema EXCEPT
                 !.models = <<Mdl("User", fs, <<>>)>>,
                 !.enums = <<[id |-> Undefined, name |-> "Kind", values |-> EditValues]>>],
             1) :
        fs \in {q \in {SubSeq(EditFieldPool, a, b) :
                            a \in 1..Len(EditFieldPool), b \in 1..Len(EditFieldPool)} :
                    Len(q) \in 1..MaxEditFields}}

InitEdit ==
    /\ pc = "page"
    /\ editorSchema \in EditSchemas
    /\ activeItem \in {"model-" \o editorSchema.models[1].id,
                        "enum-" \o editorSchema.enums[1].id}
    /\ showPreview = FALSE /\ showERD = FALSE
    /\ now = 0
    /\ call = [op |-> "mount"]
    /\ doc = Null /\ src = <<>> /\ text = None /\ parsed = Null /\ text2 = None
    /\ argsStr = None /\ pos = 0 /\ scan = Null /\ result = <<>>
    /\ previous = Null /\ content = None

\* the model and the enum the editors are mounted on (props.model, props.enumData)
activeModel == CHOOSE m \in {editorSchema.models[k] : k \in 1..Len(editorSchema.models)} :
             m.id = getActiveContent.id
activeEnum == CHOOSE e \in {editorSchema.enums[k] : k \in 1..Len(editorSchema.enums)} :
                e.id = getActiveContent.id

\* handleUpdateModel, handleUpdateEnum: the item with the id is replaced
handleUpdateModel(updatedModel) ==
    [editorSchema EXCEPT !.models =
        [k \in 1..Len(@) |-> IF @[k].id = updatedModel.id THEN updatedModel ELSE @[k]]]
handleUpdateEnum(updatedEnum) ==
    [editorSchema EXCEPT !.enums =
        [k \in 1..Len(@) |-> IF @[k].id = updatedEnum.id THEN updatedEnum ELSE @[k]]]

\* updateField(index, updatedField), index counted from 0
updateField(index, updatedField) ==
    handleUpdateModel([activeModel EXCEPT !.fields[index + 1] = updatedField])

\* [q[index], q[targetIndex]] = [q[targetIndex], q[index]], indexes from 0
swapped(q, index, targetIndex) ==
    [q EXCEPT ![index + 1] = q[targetIndex + 1], ![targetIndex + 1] = q[index + 1]]

\* a move that takes the element two places away
moved_twoPlaces(q, index, direction) ==
    LET targetIndex == IF direction = "up" THEN index - 1 ELSE index + 1
        far == IF direction = "up" THEN Max(index - 2, 0) ELSE Min(index + 2, Len(q) - 1)
    IN  IF (direction = "up" /\ index = 0) \/ (direction = "down" /\ index = Len(q) - 1)
        THEN [returns |-> TRUE]
        ELSE [returns |-> FALSE, list |-> swapped(q, index, far)]

\* moveField and moveValue on their list: return at the ends, swap otherwise
moved(q, index, direction) ==
    LET targetIndex == IF direction = "up" THEN index - 1 ELSE index + 1
    IN  IF (direction = "up" /\ index = 0) \/ (direction = "down" /\ index = Len(q) - 1)
        THEN [returns |-> TRUE]
        ELSE [returns |-> FALSE, list |-> swapped(q, index, targetIndex)]

moveField(index, direction) ==
    /\ pc = "page" /\ Tick
    /\ getActiveContent.shows = "ModelEditor"
    /\ LET m == moved(activeModel.fields, index, direction)
       IN  editorSchema' = IF m.returns THEN editorSchema
                           ELSE handleUpdateModel([activeModel EXCEPT !.fields = m.list])
    /\ call' = [op |-> "moveField", index |-> index, direction |-> direction]
    /\ UNCHANGED <<pc, activeItem, showPreview, showERD, transform>>

moveValue(index, direction) ==
    /\ pc = "page" /\ Tick
    /\ getActiveContent.shows = "EnumEditor"
    /\ LET m == moved(activeEnum.values, index, direction)
       IN  editorSchema' = IF m.returns THEN editorSchema
                           ELSE handleUpdateEnum([activeEnum EXCEPT !.values = m.list])
    /\ call' = [op |-> "moveValue", index |-> index, direction |-> direction]
    /\ UNCHANGED <<pc, activeItem, showPreview, showERD, transform>>

\* the arrows of every row of the two editors
Move ==
    \/ /\ getActiveContent.shows = "ModelEditor"
       /\ \E index \in 0..(Len(activeModel.fields) - 1), direction \in {"up", "down"} :
              moveField(index, direction)
    \/ /\ getActiveContent.shows = "EnumEditor"
       /\ \E index \in 0..(Len(activeEnum.values) - 1), direction \in {"up", "down"} :
              moveValue(index, direction)

\* findIndex(arg => arg.name === argName), from 0, -1 when there is none
findIndex(arguments, argName) ==
    LET S == {k \in 1..Len(arguments) : arguments[k].name = argName}
    IN  IF S = {} THEN -1 ELSE Least(S) - 1

\* the onChange of the inputs of @map, @db and @relation: the attributes of
\* the field after it, or the TypeError of an index without an element
changedAttributes(attributes, attrIndex, argName, value, isExpression) ==
    LET argIndex == findIndex(attributes[attrIndex + 1].arguments, argName)
    IN  IF argIndex >= 0
        THEN IF argIndex + 1 > Len(attributes)
                  \/ argIndex + 1 > Len(attributes[argIndex + 1].arguments)
             THEN [raises |-> TRUE]
             ELSE [raises |-> FALSE,
                   attributes |-> [attributes EXCEPT
                       ![argIndex + 1].arguments[argIndex + 1].value = value]]
        ELSE [raises |-> FALSE,
              attributes |-> [attributes EXCEPT ![attrIndex + 1].arguments =
                  Append(@, Arg(argName, value, isExpression))]]

\* the four inputs: the attribute they belong to, the argument they edit
Inputs ==
    {[input |-> "column name", attr |-> "map", arg |-> "name", quotes |-> TRUE,
      isExpression |-> FALSE, value |-> "col"],
     [input |-> "database type", attr |-> "db", arg |-> "value", quotes |-> FALSE,
      isExpression |-> TRUE, value |-> "VarChar(9)"],
     [input |-> "relation name", attr |-> "relation", arg |-> "name", quotes |-> TRUE,
      isExpression |-> FALSE, value |-> "rel"],
     [input |-> "on delete", attr |-> "relation", arg |-> "onDelete", quotes |-> FALSE,
      isExpression |-> TRUE, value |-> "SetNull"]}

typed(in) == IF in.quotes THEN DQ \o in.value \o DQ ELSE in.value

\* onChange of the input in of attribute attrIndex of field index
onChange(index, attrIndex, in) ==
    /\ pc = "page" /\ Tick
    /\ getActiveContent.shows = "ModelEditor"
    /\ LET field == activeModel.fields[index + 1]
           c == changedAttributes(field.attributes, attrIndex, in.arg, typed(in),
                                  in.isExpression)
       IN  /\ field.attributes[attrIndex + 1].name = in.attr
           /\ editorSchema' = IF c.raises THEN editorSchema
                               ELSE updateField(index, [field EXCEPT !.attributes = c.attributes])
           /\ call' = [op |-> "onChange", index |-> index, attrIndex |-> attrIndex,
                        input |-> in, raises |-> c.raises]
    /\ UNCHANGED <<pc, activeItem, showPreview, showERD, transform>>

\* the inputs of every attribute of every field of the model
Edit ==
    /\ getActiveContent.shows = "ModelEditor"
    /\ \E index \in 0..(Len(activeModel.fields) - 1) :
          \E attrIndex \in 0..(Len(activeModel.fields[index + 1].attributes) - 1) :
              \E in \in Inputs : onChange(index, attrIndex, in)

NextEdit == Move \/ Edit

SpecEdit == InitEdit /\ [][NextEdit]_vars

(***************************************************************************)
(* Properties                                                              *)
(***************************************************************************)
\* C1: generate then parse gives back the Document: for every Document D,
\* parseSchema(generateSchemaCode(D)) is not null and equals D once the ids
\* of models, fields and enums are taken out of both.
RoundTripRestoresDocument ==
    pc = "parsed" => parsed # Null /\ sanitizedSchema(parsed) = sanitizedSchema(doc)

\* C2: generation is idempotent: for every Document D the text generated from
\* parseSchema(generateSchemaCode(D)) is generateSchemaCode(D), character for
\* character.
GeneratedTextIsFixedPoint ==
    pc = "regenerated" => text2 = text

\* what the lines of the source say, for the properties of the parser
isModelBlock(b) == b.kind = "model"
isEnumBlock(b) == b.kind = "enum"
ModelBlocks == Filter(src, isModelBlock)
EnumBlocks == Filter(src, isEnumBlock)
nameOf(x) == x.name

\* the attribute the spec describes for a written one: no arguments, or the one
\* positional argument holding the whole text between the parentheses
describedAttribute(a) ==
    [name |-> a.name,
     arguments |-> IF a.args = Undefined THEN <<>>
                   ELSE <<[name |-> "value", value |-> a.args,
                           isExpression |-> a.class # "literal"]>>]

\* a written attribute without arguments, or @default with a built-in call
plainAttr(a) ==
    a.class = "bare" \/ (a.name = "default" /\ a.args \in BuiltinCalls)
plainLine(l) == \A k \in 1..Len(l.attrs) : plainAttr(l.attrs[k])
canonical(b) ==
    b.kind = "model" /\ b.gap = " " /\ \A k \in 1..Len(b.lines) : plainLine(b.lines[k])

\* C3: a field line with `@id @default(cuid())` parses to a field, in source
\* order, whose attributes are id without arguments and default with the one
\* positional argument named "value" whose value is the whole call text
\* `cuid()` and which is an expression; a line without attribute text has no
\* attributes; in general @name(f()) has the whole text f() for its value.
CallArgumentKeptWhole ==
    pc = "imported" =>
        /\ parsed # Null
        /\ Len(parsed.models) = Len(ModelBlocks)
        /\ \A k \in 1..Len(ModelBlocks) :
            /\ Map(parsed.models[k].fields, nameOf) = Map(ModelBlocks[k].lines, nameOf)
            /\ \A j \in 1..Len(ModelBlocks[k].lines) :
                plainLine(ModelBlocks[k].lines[j]) =>
                    parsed.models[k].fields[j].attributes
                        = Map(ModelBlocks[k].lines[j].attrs, describedAttribute)

\* C4: for a model block in canonical form whose attributes have no arguments
\* or are @default with a built-in call, generateModelCode of the parsed Model
\* is the text of the block: same field order, same rendering of attributes.
CanonicalModelReproduced ==
    pc = "imported" =>
        /\ Len(parsed.models) = Len(ModelBlocks)
        /\ \A k \in 1..Len(ModelBlocks) :
            canonical(ModelBlocks[k]) =>
                generateModelCode(parsed.models[k]) = blockText(ModelBlocks[k])

CanonicalModelReproduced_witness ==
    /\ pc = "imported"
    /\ Len(src) = 1 /\ canonical(src[1]) /\ Len(src[1].lines) = MaxLines
    /\ src[1].lines[1] = LinePool[1]
    /\ generateModelCode(parsed.models[1]) = blockText(src[1])

\* the quote that is open after the first i characters of s ("": none)
RECURSIVE OpenQuote(_, _)
OpenQuote(s, i) ==
    IF i = 0 THEN ""
    ELSE LET q == OpenQuote(s, i - 1)
         IN  IF q # "" THEN (IF Ch(s, i) = q /\ Ch(s, i - 1) # BS THEN "" ELSE q)
             ELSE IF Ch(s, i) \in {DQ, SQ} THEN Ch(s, i) ELSE ""

\* the indexes of s outside quoted strings, the quotes themselves not counted
Outside(s) == {k \in 1..Len(s) : OpenQuote(s, k - 1) = "" /\ OpenQuote(s, k) = ""}

\* the nesting depth before index k: brackets opened less brackets closed
DepthBefore(s, out, k) ==
    Cardinality({j \in out : j < k /\ Ch(s, j) \in {"[", "{", "("}})
        - Cardinality({j \in out : j < k /\ Ch(s, j) \in {"]", "}", ")"}})

\* the commas of s at depth 0 and outside quoted strings
TopCommas(s) ==
    LET out == Outside(s)
    IN  {k \in out : Ch(s, k) = "," /\ DepthBefore(s, out, k) = 0}

\* the k-th element of a set of numbers, in increasing order
Kth(S, k) == CHOOSE x \in S : Cardinality({y \in S : y < x}) = k - 1

\* the chunks of s between its commas at the indexes in cuts
Chunks(s, cuts) ==
    LET n == Cardinality(cuts)
        cut(k) == IF k = 0 THEN 0 ELSE IF k = n + 1 THEN Len(s) + 1 ELSE Kth(cuts, k)
    IN  [k \in 1..(n + 1) |-> SubSeq(s, cut(k - 1) + 1, cut(k) - 1)]

\* C5: parseAttributeArguments ends an argument exactly at the commas at depth
\* 0 outside quoted strings: while scanning, the arguments pushed are those of
\* the chunks before the top-level commas read so far, and the list returned
\* is that of all the chunks (a blank last chunk left out); a comma in
\* brackets or in a quoted string never splits. `a: 1, b: [x, y], c: "a,b"`
\* gives the 3 arguments a, b and c.
SplitsAtTopLevelCommas ==
    LET cuts == TopCommas(argsStr)
        chunks == Chunks(argsStr, cuts)
        n == Cardinality(cuts)
        read == Cardinality({k \in cuts : k < pos})
    IN  /\ pc = "scanning" =>
            scan.args = [k \in 1..read |-> processArg(chunks[k])]
        /\ pc = "returned" /\ trim(argsStr) # "" =>
            result = [k \in 1..n |-> processArg(chunks[k])]
                        \o (IF trim(chunks[n + 1]) # "" THEN <<processArg(chunks[n + 1])>>
                            ELSE <<>>)
        /\ pc = "returned" /\ argsStr = "a: 1, b: [x, y], c: \"a,b\"" =>
            result = <<[name |-> "a", value |-> "1", isExpression |-> TRUE],
                       [name |-> "b", value |-> "[x, y]", isExpression |-> TRUE],
                       [name |-> "c", value |-> "\"a,b\"", isExpression |-> FALSE]>>

SplitsAtTopLevelCommas_witness ==
    /\ pc = "returned"
    /\ argsStr = "a: 1, b: [x, y], c: \"a,b\""
    /\ Cardinality(TopCommas(argsStr)) = 2
    /\ Len(result) = 3

\* C6: for every field line `<name> <type>` with `[]` and/or `?` after the
\* type, the Field has the bare type name for its type, isList true exactly
\* when `[]` is written and isRequired false exactly when `?` is written.
MarkersOfFieldLines ==
    pc = "imported" =>
        /\ Len(parsed.models) = Len(ModelBlocks)
        /\ \A k \in 1..Len(ModelBlocks) :
            /\ Len(parsed.models[k].fields) = Len(ModelBlocks[k].lines)
            /\ \A j \in 1..Len(ModelBlocks[k].lines) :
                LET l == ModelBlocks[k].lines[j]
                    field == parsed.models[k].fields[j]
                IN  /\ field.name = l.name
                    /\ field.type = l.type
                    /\ field.isList = l.isList
                    /\ field.isRequired = ~l.isOptional

MarkersOfFieldLines_witness ==
    /\ pc = "imported"
    /\ Len(src) = 1 /\ src[1].kind = "model" /\ Len(src[1].lines) = 2
    /\ src[1].lines[1].isList /\ src[1].lines[1].isOptional
    /\ src[1].lines[2].isList /\ ~src[1].lines[2].isOptional
    /\ parsed.models[1].fields[1].isList /\ ~parsed.models[1].fields[1].isRequired
    /\ parsed.models[1].fields[2].isList /\ parsed.models[1].fields[2].isRequired

\* C7: the argument of @default("x") is not an expression; those of
\* @default(now()), @default(Status.ACTIVE), and of any call, bracketed list,
\* bare identifier or enum member, are expressions.
DefaultClassified ==
    pc = "imported" =>
        /\ Len(parsed.models) = Len(ModelBlocks)
        /\ \A k \in 1..Len(ModelBlocks) :
            /\ Len(parsed.models[k].fields) = Len(ModelBlocks[k].lines)
            /\ \A j \in 1..Len(ModelBlocks[k].lines) :
                LET written == ModelBlocks[k].lines[j].attrs
                    attributes == parsed.models[k].fields[j].attributes
                IN  /\ Len(attributes) = Len(written)
                    /\ \A i \in 1..Len(written) :
                        written[i].name = "default" =>
                            /\ attributes[i].name = "default"
                            /\ Len(attributes[i].arguments) = 1
                            /\ attributes[i].arguments[1].isExpression
                                   = (written[i].class # "literal")

DefaultClassified_witness ==
    /\ pc = "imported"
    /\ Len(src) = 1 /\ src[1].kind = "model" /\ Len(src[1].lines) = 2
    /\ src[1].lines[1].attrs = <<Written("default", "\"x\"", "literal")>>
    /\ src[1].lines[2].attrs = <<Written("default", "Status.ACTIVE", "member")>>
    /\ ~parsed.models[1].fields[1].attributes[1].arguments[1].isExpression
    /\ parsed.models[1].fields[2].attributes[1].arguments[1].isExpression

\* C8: the Models of the parsed Document are the model blocks of the source in
\* their order, and its Enums the enum blocks in their order, however the
\* blocks are interleaved; two model blocks then an enum block give 2 Models
\* and 1 Enum.
BlocksInSourceOrder ==
    pc = "imported" =>
        /\ Map(parsed.models, nameOf) = Map(ModelBlocks, nameOf)
        /\ Map(parsed.enums, nameOf) = Map(EnumBlocks, nameOf)

BlocksInSourceOrder_witness ==
    /\ pc = "imported"
    /\ Map(src, nameOf) = <<"Post", "User", "Role">>
    /\ Map(parsed.models, nameOf) = <<"Post", "User">>
    /\ Len(parsed.enums) = 1

\* C9: the text of generateSchemaCode is the datasource block, the generator
\* block, every Model in Document order and every Enum in Document order,
\* with one blank line between each two of them and nothing for an empty
\* list of models or enums.
SectionsInOrder ==
    pc = "generated" =>
        text = join(<<datasourceCode(doc.datasource), generatorCode(doc.generator)>>
                        \o Map(doc.models, generateModelCode)
                        \o Map(doc.enums, generateEnumCode), NL \o NL)

SectionsInOrder_witness ==
    /\ pc = "generated"
    /\ doc.models = <<>> /\ Len(doc.enums) = MaxEnums
    /\ ~includes(text, NL \o NL \o NL)

\* C10: ids are never written: two Documents that differ only in the ids of
\* their models, fields and enums have the same generateSchemaCode, and their
\* models and enums the same generateModelCode and generateEnumCode.
IdsNeverEmitted ==
    pc = "generated" =>
        \A rnd \in IdSeeds :
            LET other == withIds(doc, rnd)
            IN  /\ generateSchemaCode(other) = text
                /\ Map(other.models, generateModelCode) = Map(doc.models, generateModelCode)
                /\ Map(other.enums, generateEnumCode) = Map(doc.enums, generateEnumCode)

IdsNeverEmitted_witness ==
    /\ pc = "generated"
    /\ Len(doc.models) = MaxModels /\ Len(doc.enums) = MaxEnums
    /\ \A rnd \in IdSeeds : withIds(doc, rnd) # doc

isDocument(x) == DOMAIN x = {"models", "enums", "datasource", "generator"}
isMalformed(p) == p.kind = "malformed"

\* C12: parseSchema never raises: a fault inside it ends in the return of null,
\* with no part of a Document, and a text that only holds malformed blocks
\* ends in the return of a Document.
ParseFailureIsAValue ==
    /\ pc \in {"raw", "stripped", "returned"}
    /\ pc = "returned" /\ faults(text) => parsed = Null
    /\ pc = "returned" /\ ~faults(text) => parsed # Null /\ isDocument(parsed)

ParseFailureIsAValue_witness ==
    /\ pc = "returned"
    /\ Len(src) = MaxPieces /\ \A k \in 1..Len(src) : isMalformed(src[k])
    /\ isDocument(parsed)

\* C13: generation never fails on an incomplete Document: generateSchemaCode
\* on a Document with a datasource or generator without provider, a generator
\* without output, previewFeatures or binaryTargets, or an attribute argument
\* without a value returns a text and does not raise.
GenerationNeverRaises ==
    pc # "raised"

isDatasource(p) == p.kind = "datasource"
isGenerator(p) == p.kind = "generator"
givesDatasource(p) == isDatasource(p) /\ {"provider", "url"} \subseteq DOMAIN p.described
givesGenerator(p) == isGenerator(p) /\ "provider" \in DOMAIN p.described
lastOf(ps) == ps[Len(ps)].described
describes(d, x) == \A key \in DOMAIN d : x[key] = d[key]

\* C14 as stated: with no datasource (generator) block the Document keeps the
\* default datasource (generator); with more than one, the Document's
\* datasource (generator) is the one the last such block of the source
\* describes.
LastBlockWins ==
    pc = "returned" /\ ~faults(text) =>
        LET ds == Filter(src, isDatasource)
            gs == Filter(src, isGenerator)
        IN  /\ ds = <<>> => parsed.datasource = defaultDatasource
            /\ gs = <<>> => parsed.generator = defaultGenerator
            /\ Len(ds) > 1 => describes(lastOf(ds), parsed.datasource)
            /\ Len(gs) > 1 => describes(lastOf(gs), parsed.generator)

\* C14 amended: the Document's datasource is the one described by the last
\* datasource block that gives both a provider and a url, and its generator
\* the one described by the last generator block that gives a provider; with
\* no such block the Document keeps the default.
LastCompleteBlockWins ==
    pc = "returned" /\ ~faults(text) =>
        LET ds == Filter(src, givesDatasource)
            gs == Filter(src, givesGenerator)
        IN  /\ parsed.datasource = IF ds = <<>> THEN defaultDatasource ELSE lastOf(ds)
            /\ parsed.generator = IF gs = <<>> THEN defaultGenerator ELSE lastOf(gs)

LastCompleteBlockWins_witness ==
    /\ pc = "returned" /\ ~faults(text)
    /\ Len(Filter(src, isDatasource)) > 1
    /\ Len(Filter(src, givesDatasource)) > 1
    /\ src[1].described # src[2].described
    /\ parsed.datasource = src[2].described

\* v, trimmed, starts and ends with the same quote character
wrapped(v) ==
    \E q \in {DQ, SQ} : startsWith(trim(v), q) /\ endsWith(trim(v), q)

\* C15: every argument parseAttributeArguments returns, named or positional
\* and at any place of the list, has isExpression false exactly when its
\* trimmed value is wrapped in matching double or single quotes: false when
\* an opening and a closing quote wrap it, true when it does not start and
\* end with the same quote (a value that is one quote character may count
\* either way).
IsExpressionIffNotQuoted ==
    pc = "returned" =>
        \A k \in 1..Len(result) :
            LET value == result[k].value
            IN  /\ wrapped(value) /\ Len(trim(value)) >= 2 => ~result[k].isExpression
                /\ ~wrapped(value) => result[k].isExpression

\* the colons of the chunk c at depth 0 and outside quoted strings
TopColons(c) ==
    LET out == Outside(c)
    IN  {k \in out : Ch(c, k) = ":" /\ DepthBefore(c, out, k) = 0}

\* name and value of the chunk c cut at its first top-level colon
cutAtTopColon(c) ==
    LET cs == TopColons(c)
    IN  IF cs = {} THEN [name |-> "value", value |-> trim(c)]
        ELSE [name |-> trim(SubSeq(c, 1, Least(cs) - 1)),
              value |-> trim(SubSeq(c, Least(cs) + 1, Len(c)))]

\* C16: every chunk the scanner flushes is cut into name and value at its
\* first colon at depth 0 outside quoted strings; a chunk without such a
\* colon, also one with colons in a quoted string or in brackets only, is
\* the positional argument named "value" whose value is the trimmed chunk.
CutAtFirstTopLevelColon ==
    pc = "returned" /\ trim(argsStr) # "" =>
        LET chunks == Chunks(argsStr, TopCommas(argsStr))
        IN  \A k \in 1..Len(result) :
                /\ result[k].name = cutAtTopColon(chunks[k]).name
                /\ result[k].value = cutAtTopColon(chunks[k]).value

\* C17: the scanner is in one of two states, isInString false or true. Outside
\* a string a double or single quote enters the string and remembers the
\* quote, and nothing else enters it; inside a string only the remembered
\* quote with no backslash before it leaves the string, and every character
\* read there (the other quote, a quote after a backslash, a comma, a
\* bracket) is added to the buffer and leaves the string open, the list of
\* arguments and the nesting depth as they are.
ScannerStringState ==
    [][pc = "scanning" /\ pos' = pos + 1 =>
        LET char == Ch(argsStr, pos)
            prev == IF pos > 1 THEN Ch(argsStr, pos - 1) ELSE Undefined
            closes == char = scan.currentQuote /\ prev # BS
        IN  /\ scan'.isInString \in BOOLEAN
            /\ ~scan.isInString =>
                    /\ scan'.isInString = (char \in {DQ, SQ})
                    /\ scan'.isInString => scan'.currentQuote = char
            /\ scan.isInString =>
                    /\ scan'.isInString = ~closes
                    /\ scan'.currentQuote = scan.currentQuote
                    /\ scan'.buffer = scan.buffer \o char
                    /\ scan'.depth = scan.depth
                    /\ scan'.args = scan.args]_vars

ScannerStringState_witness ==
    /\ pc = "scanning"
    /\ scan.isInString /\ scan.currentQuote = DQ
    /\ startsWith(scan.buffer, DQ \o BS \o DQ) /\ includes(scan.buffer, ",")
    /\ scan.depth = 0 /\ scan.args = <<>>

\* a line up to its first //
cutLine(l) ==
    LET j == indexOf(l, "//")
    IN  IF j = 0 THEN l ELSE SubSeq(l, 1, j - 1)

\* the parts of l between carriage returns, each cut at its first //
cutReturns(l) == join(Map(split(l, "\r"), cutLine), "\r")

\* the lines of s, each cut at its first //, with the line breaks of s
cutLines(s) == join(Map(split(s, NL), cutReturns), NL)

\* C18: before any block is matched, the text parseSchema works on is the
\* source with, on every line, everything from the first // to the end of
\* the line deleted, inside quotes too, and every other character and every
\* line break in place; a quoted url with // in it is cut at the //.
CommentsStrippedPerLine ==
    /\ pc = "stripped" => parsed = Null
    /\ pc \in {"stripped", "returned"} /\ ~faults(text) =>
            /\ content = cutLines(text)
            /\ ~includes(content, "//")
            /\ includes(text, "url = \"mysql://host/db\"\n") =>
                    includes(content, "url = \"mysql:\n")

CommentsStrippedPerLine_witness ==
    /\ pc = "stripped"
    /\ includes(text, "url = \"mysql://host/db\"\n")
    /\ includes(text, "A // first\r\n") /\ includes(content, "A \r\n")
    /\ content # text

\* the fields of the models of the Document
fieldsOf(schema) ==
    UNION {{schema.models[k].fields[j] : j \in 1..Len(schema.models[k].fields)} :
               k \in 1..Len(schema.models)}

\* the parentheses of s outside quoted strings: how many are open after the
\* first k characters
ParenDepth(s, k) ==
    LET out == Outside(s)
    IN  Cardinality({j \in out : j <= k /\ Ch(s, j) = "("})
            - Cardinality({j \in out : j <= k /\ Ch(s, j) = ")"})

\* the opening parentheses of s that no closing parenthesis matches
UnmatchedOpen(s) ==
    ParenDepth(s, Len(s)) - Least({ParenDepth(s, k) : k \in 0..Len(s)})

Balanced(s) ==
    /\ ParenDepth(s, Len(s)) = 0
    /\ \A k \in 0..Len(s) : ParenDepth(s, k) >= 0

isDefault(attr) == attr.name = "default"
typeCode(field) ==
    field.type \o (IF field.isList THEN "[]" ELSE "") \o (IF field.isRequired THEN "" ELSE "?")

\* a default attribute as C19 words it: one parenthesis more exactly when the
\* argument list has an opening parenthesis without its close
defaultCode(attr) ==
    LET args == join(Map(attr.arguments, formattedValue), ", ")
    IN  "@default(" \o args \o ")" \o (IF UnmatchedOpen(args) > 0 THEN ")" ELSE "")

\* C19: generateModelCode writes a default attribute with one closing
\* parenthesis more exactly when its rendered argument list has an opening
\* parenthesis without a matching close, so the `@default(...)` written has
\* balanced parentheses; a quoted literal with a `(` in it gets nothing more.
DefaultClosedWhenOpen ==
    pc = "generated" =>
        \A field \in fieldsOf(doc) :
            (field.attributes # <<>> /\ \A k \in 1..Len(field.attributes) :
                                            isDefault(field.attributes[k])) =>
                LET written == join(Map(field.attributes, defaultCode), " ")
                    line == "  " \o field.name \o " " \o typeCode(field) \o " " \o written
                IN  /\ includes(text, NL \o line \o NL)
                    /\ Balanced(written)

\* the argument of a db attribute, as it is rendered
dbArgument(attr) == join(Map(attr.arguments, formattedValue), ", ")
isOmitted(attr) == attr.name = "db" /\ dbArgument(attr) = ""
isWritten(attr) == ~isOmitted(attr)
withoutOmitted(field) == [field EXCEPT !.attributes = Filter(field.attributes, isWritten)]

\* C20: generateModelCode writes a db attribute with an argument as
\* `@db.<arg>` and leaves out one without; the attribute left out adds
\* nothing to the field line, which is the line of the field without that
\* attribute: one space between attributes and no space at the end.
OmittedDbAddsNothing ==
    pc = "generated" =>
        \A field \in fieldsOf(doc) :
            LET line == fieldLine(withoutOmitted(field))
            IN  /\ includes(text, NL \o line \o NL)
                /\ ~endsWith(line, " ")
                /\ \A k \in 1..Len(field.attributes) :
                        LET attr == field.attributes[k]
                        IN  attr.name = "db" /\ ~isOmitted(attr) =>
                                includes(line, " @db." \o dbArgument(attr))

isOther(attr) == attr.name \notin {"default", "db", "relation"}
hasValues(attr) ==
    \A k \in 1..Len(attr.arguments) :
        {"value", "isExpression"} \subseteq DOMAIN attr.arguments[k]
startsQuoted(v) == startsWith(v, DQ) \/ startsWith(v, SQ)

\* the argument as C21 words it: raw when positional or an expression
valueByName(arg) ==
    IF arg.name = "value" \/ arg.isExpression \/ startsQuoted(arg.value)
    THEN arg.value ELSE DQ \o arg.value \o DQ

\* the argument whatever its name: raw when an expression or quoted already
valueByKind(arg) ==
    IF arg.isExpression \/ startsQuoted(arg.value)
    THEN arg.value ELSE DQ \o arg.value \o DQ

\* `@name` without arguments, `@name(args)` with them
otherCode(attr, value(_)) ==
    "@" \o attr.name
        \o (IF attr.arguments = <<>> THEN ""
            ELSE "(" \o join(Map(attr.arguments, value), ", ") \o ")")

otherLine(field, value(_)) ==
    "  " \o field.name \o " " \o typeCode(field) \o " "
         \o join([k \in 1..Len(field.attributes) |-> otherCode(field.attributes[k], value)], " ")

plainFields(schema) ==
    {field \in fieldsOf(schema) :
        /\ field.attributes # <<>>
        /\ \A k \in 1..Len(field.attributes) :
              isOther(field.attributes[k]) /\ hasValues(field.attributes[k])}

rawValue(arg) == IF "value" \in DOMAIN arg THEN arg.value ELSE ""
rawValues(attr) == join(Map(attr.arguments, rawValue), ", ")

\* the line of a model attribute, an empty line before it
attributeLines(attr) ==
    <<"", "  @@" \o attr.type \o (IF rawValues(attr) = "" THEN ""
                                   ELSE "(" \o rawValues(attr) \o ")")>>

RECURSIVE allAttributeLines(_)
allAttributeLines(attrs) ==
    IF attrs = <<>> THEN <<>>
    ELSE attributeLines(Head(attrs)) \o allAttributeLines(Tail(attrs))

\* the lines of a model: the field list, then the model attributes in order
modelLines(model) ==
    <<"model " \o model.name \o " {">>
        \o (IF model.fields = <<>> /\ model.attributes = <<>> THEN <<"">>
            ELSE Map(model.fields, fieldLine) \o allAttributeLines(model.attributes))
        \o <<"}">>

\* C22: generateModelCode writes every model attribute as a line `  @@type`
\* or `  @@type(args)` after the field list, one blank line before it, the
\* arguments joined by `, ` with their raw value and no `name:` before it,
\* in the order of the Model's attribute list.
ModelAttributesAfterFields ==
    /\ pc = "generated" =>
            \A k \in 1..Len(doc.models) :
                includes(text \o NL, NL \o join(modelLines(doc.models[k]), NL) \o NL)
    /\ pc = "shown" /\ startsWith(text, "model ") =>
            \E k \in 1..Len(doc.models) : text = join(modelLines(doc.models[k]), NL)

ModelAttributesAfterFields_witness ==
    /\ pc = "shown"
    /\ \E k \in 1..Len(doc.models) :
          /\ Len(doc.models[k].attributes) = 2 /\ Len(doc.models[k].fields) > 0
          /\ text = generateModelCode(doc.models[k])
    /\ endsWith(text, NL \o NL \o "  @@map(\"users\")" \o NL \o NL \o "  @@ignore" \o NL \o "}")

isModelPiece(p) == p.kind = "model"
isEnumPiece(p) == p.kind = "enum"
typeOf(x) == x.type

\* C23: a non-blank line of a model body that the field tokenizer does not
\* match is skipped without a word: the other field lines and model
\* attribute lines of the model are parsed and kept in source order, so are
\* the other blocks of the text, and parseSchema returns a Document.
BadLinesSkipped ==
    pc = "returned" /\ ~faults(text) =>
        LET ms == Filter(src, isModelPiece)
        IN  /\ parsed # Null
            /\ Len(parsed.models) = Len(ms)
            /\ \A k \in 1..Len(ms) :
                  /\ parsed.models[k].name = ms[k].described.name
                  /\ Map(parsed.models[k].fields, nameOf) = ms[k].described.fields
                  /\ Map(parsed.models[k].attributes, typeOf) = ms[k].described.attributes
            /\ (\A k \in 1..Len(src) : ~isMalformed(src[k])) =>
                  Len(parsed.enums) = Len(Filter(src, isEnumPiece))
            /\ LET ds == Filter(src, givesDatasource)
               IN  parsed.datasource = IF ds = <<>> THEN defaultDatasource ELSE lastOf(ds)

BadLinesSkipped_witness ==
    /\ pc = "returned"
    /\ Len(src) = 2 /\ isModelPiece(src[1]) /\ isModelPiece(src[2])
    /\ Map(parsed.models, nameOf) = <<"Post", "User">>
    /\ Map(parsed.models[1].fields, nameOf) = <<"id", "body">>
    /\ Len(parsed.models[1].attributes) = 2
    /\ includes(text, NL \o "  ???" \o NL)

\* the names activeItem can have for the item with this id, the separator
\* of handleSelectItem or that of the delete handlers
namesOf(itemType, id) == {itemType \o "-" \o id, itemType \o "_" \o id}
configItems == {"datasource-db", "generator-client"}

\* C24: after any handler calls of the page, activeItem is null, or names the
\* datasource or generator config, or names a model or an enum that is in
\* the schema; deleting the model or enum that is the active item leaves
\* activeItem null.
ActiveItemInSchema ==
    pc = "page" =>
        \/ activeItem = nullItem
        \/ activeItem \in configItems
        \/ \E id \in ids(editorSchema.models) : activeItem \in namesOf("model", id)
        \/ \E id \in ids(editorSchema.enums) : activeItem \in namesOf("enum", id)

\* the editor of the item made by the last call, when it was handleNewModel
\* or handleNewEnum
editorOfNew ==
    [shows |-> IF call.op = "handleNewModel" THEN "ModelEditor" ELSE "EnumEditor",
     id |-> call.id]

\* C25: after handleNewModel or handleNewEnum the new item is the active item
\* in the form `<type>-<id>` that handleSelectItem sets and getActiveContent
\* splits, so with neither preview nor diagram shown getActiveContent gives
\* the editor of the new model, or of the new enum.
NewItemIsShown ==
    pc = "page" /\ call.op \in {"handleNewModel", "handleNewEnum"} =>
        /\ activeItem = (IF call.op = "handleNewModel" THEN "model-" ELSE "enum-") \o call.id
        /\ ~showPreview /\ ~showERD => getActiveContent = editorOfNew

\* C27: showPreview and showERD are never both true, at the start and after
\* any handler calls of the page.
PreviewAndERDExclusive ==
    pc = "page" => ~(showPreview /\ showERD)

PreviewAndERDExclusive_witness ==
    /\ pc = "page"
    /\ showERD /\ ~showPreview
    /\ call.op = "handleNewModel"

\* the Documents a text parses to, one for every choice of ids
DocumentsOf ==
    [schemaContent \in ImportTexts \ {Undefined} |->
        {parseContent(stripComments(schemaContent), rnd) : rnd \in IdSeeds}]

\* C28: an import whose parseSchema returns null leaves schema, activeItem,
\* showPreview and showERD as they were; an import whose parseSchema returns
\* a Document replaces the schema by that Document as a whole and sets
\* activeItem to null.
FailedImportChangesNothing ==
    [][call'.op = "handleImportSchema" /\ now' # now =>
        IF faults(call'.schemaContent)
        THEN UNCHANGED <<editorSchema, activeItem, showPreview, showERD>>
        ELSE /\ editorSchema' \in DocumentsOf[call'.schemaContent]
             /\ activeItem' = nullItem]_vars

FailedImportChangesNothing_witness ==
    /\ pc = "page"
    /\ call.op = "handleImportSchema" /\ faults(call.schemaContent)
    /\ editorSchema.models # <<>> /\ activeItem # nullItem

\* C30: after any handleNewModel and handleDeleteModel calls from the empty
\* schema no two models of the schema have the same name, and after any
\* handleNewEnum and handleDeleteEnum calls no two enums.
NamesDistinct ==
    pc = "page" =>
        /\ \A j, k \in 1..Len(editorSchema.models) :
              editorSchema.models[j].name = editorSchema.models[k].name => j = k
        /\ \A j, k \in 1..Len(editorSchema.enums) :
              editorSchema.enums[j].name = editorSchema.enums[k].name => j = k


\* the number of places of q that hold x
occurrences(q, x) == Cardinality({k \in 1..Len(q) : q[k] = x})

\* new is old with the elements at index and at its neighbour exchanged
adjacentSwap(old, new, index, direction) ==
    LET targetIndex == IF direction = "up" THEN index - 1 ELSE index + 1
    IN  /\ Len(new) = Len(old)
        /\ new[index + 1] = old[targetIndex + 1]
        /\ new[targetIndex + 1] = old[index + 1]
        /\ \A k \in 1..Len(old) : k \notin {index + 1, targetIndex + 1} => new[k] = old[k]
        /\ \A k \in 1..Len(old) : occurrences(new, old[k]) = occurrences(old, old[k])

\* (the editors of this specification are open on a schema of one model and
\* one enum: models[1] and enums[1] are the edited ones)
\* C26: editing the column name of @map, the type of @db, the name or the
\* onDelete of @relation raises no fault and changes only that argument of
\* that attribute: the field has the same attributes in the same places,
\* every other attribute keeps its arguments, and the edited attribute holds
\* the typed value under the argument's name, whatever its place in the list.
EditChangesOnlyItsArgument ==
    [][call'.op = "onChange" /\ now' # now =>
        LET old == editorSchema.models[1].fields[call'.index + 1].attributes
            new == editorSchema'.models[1].fields[call'.index + 1].attributes
            a == call'.attrIndex + 1
        IN  /\ ~call'.raises
            /\ Len(new) = Len(old)
            /\ \A k \in 1..Len(old) : k # a => new[k] = old[k]
            /\ new[a].name = old[a].name
            /\ \A x \in {old[a].arguments[k] : k \in 1..Len(old[a].arguments)} :
                   x.name # call'.input.arg =>
                       x \in {new[a].arguments[k] : k \in 1..Len(new[a].arguments)}
            /\ \E k \in 1..Len(new[a].arguments) :
                   /\ new[a].arguments[k].name = call'.input.arg
                   /\ new[a].arguments[k].value = typed(call'.input)]_vars

\* C29: moveField and moveValue exchange the element at index with its
\* neighbour in the direction and leave every other place, the length and
\* the number of occurrences of every element as they were; 'up' at index 0
\* and 'down' at the last index update nothing.
MoveIsAdjacentSwap ==
    [][call'.op \in {"moveField", "moveValue"} /\ now' # now =>
        LET old == IF call'.op = "moveField" THEN editorSchema.models[1].fields ELSE editorSchema.enums[1].values
            new == IF call'.op = "moveField" THEN editorSchema'.models[1].fields ELSE editorSchema'.enums[1].values
            index == call'.index
            direction == call'.direction
        IN  IF (direction = "up" /\ index = 0) \/ (direction = "down" /\ index = Len(old) - 1)
            THEN editorSchema' = editorSchema
            ELSE /\ adjacentSwap(old, new, index, direction)
                 /\ editorSchema'.datasource = editorSchema.datasource
                 /\ editorSchema'.generator = editorSchema.generator
                 /\ IF call'.op = "moveField"
                    THEN /\ editorSchema'.enums = editorSchema.enums
                         /\ editorSchema'.models =
                                <<[editorSchema.models[1] EXCEPT !.fields = new]>>
                    ELSE /\ editorSchema'.models = editorSchema.models
                         /\ editorSchema'.enums =
                                <<[editorSchema.enums[1] EXCEPT !.values = new]>>]_vars

MoveIsAdjacentSwap_witness ==
    /\ pc = "page" /\ call.op = "moveValue"
    /\ call.index = 2 /\ call.direction = "up"
    /\ editorSchema.enums[1].values = <<"A", "A", "B">>

=============================================================================
